---- MODULE Spec2Model ----
(***************************************************************************)
(* Model of the field-resolution engine of the PDF form-filling agent:     *)
(* the Gemini clients (two.py with retries, one.py without), the           *)
(* model-assisted matchers and fill_form of one.py and two.py, and the     *)
(* fuzzy matchers (fallback_fuzzy_matching, find_best_match).              *)
(*                                                                         *)
(* Python strings that the code scans are sequences of pieces of text:     *)
(* single characters for the prompts handed to the client on its own, so   *)
(* that str.replace works on them as it does on the string; tokens for the *)
(* model responses and for the prompts the matchers build.  Form-field     *)
(* names and data keys are atomic names whose spelling (a sequence of      *)
(* characters) is given by a table, so that similarity ratios are computed *)
(* from the characters.                                                    *)
(***************************************************************************)
EXTENDS Integers, Sequences, FiniteSets, TLC

VARIABLES
    \* ---- call_gemini_api (two.py:62-156, one.py:328-373)
    client,          \* which module's call_gemini_api is running: "two" | "one" | "none"
    api_key,         \* whether the call found GEMINI_API_KEY set
    c_pc,            \* "idle" | "loop" (about to run a loop iteration) | "done"
    retry_count,     \* parameter retry_count
    backoff_factor,  \* parameter backoff_factor
    attempt,         \* loop variable of `for attempt in range(retry_count)`
    prompt,          \* local variable prompt
    payload,         \* payload['contents'][0]['parts'][0]['text']
    response_bound,  \* whether the local name `response` has been assigned
    sent,            \* history: the prompt text of every request issued
    slept,           \* history: the argument of every time.sleep call
    outcomes,        \* history: what happened in each loop iteration
    rewrites,        \* history: number of modify_prompt_for_safety calls
    ret,             \* the returned text (<<>> is the empty string)
    raised,          \* "" while nothing propagated, else the exception's name
    \* ---- fill_form and the matchers it calls
    variant,         \* "none" | "one" | "two" | "agent" | "fallback" | "extract"
    o_pc,            \* "start" | "model" | "parse" | "regex" | "fuzzy" | "fill" | "done"
    form_fields,     \* list(form_fields.keys())
    data,            \* the keys of the dict data, in order; data[k] is ValueOf(k)
    ents,            \* the entity labels the NER model gives each name
    cleaned_response, \* local variable cleaned_response
    matched_fields,  \* matched_fields / field_mapping, as a decoded JSON value
    updates,         \* local variable updates
    fuzzy_runs,      \* history: number of fallback_fuzzy_matching calls
    model_calls,     \* history: number of call_gemini_api calls by the matcher
    fill_result,     \* what fill_form returned
    o_exc,           \* "" or the exception that ended the matching
    steps,           \* history: the steps taken, in order
    audit,           \* history: every write_response_to_file call, and whether it wrote
    \* ---- EmailProcessor and main (one.py)
    e_pc,            \* "start" | "parsed" | "loop" | "done"
    email_parts,     \* email_data['payload']['parts']
    attachments,     \* self.attachments
    fetched,         \* history: the downloads made (part visited, outcome)
    downloaded_files, \* local variable downloaded_files of main
    filled,          \* history: the filenames fill_form was called for
    replies,         \* history: the filenames a reply was sent for
    \* ---- update_json_with_gemini (three.py)
    j_pc,            \* "idle" | "model" | "parse" | "done"
    json_file,       \* the form-data file
    existing_data,   \* local variable existing_data
    j_response,      \* local variable response
    j_writes,        \* history: every value dumped to the file
    j_ret,           \* the value returned
    j_raised         \* "" or the exception that left the function

cvars == <<client, api_key, c_pc, retry_count, backoff_factor, attempt, prompt, payload,
           response_bound, sent, slept, outcomes, rewrites, ret, raised>>

ovars == <<variant, o_pc, form_fields, data, ents, cleaned_response,
           matched_fields, updates, fuzzy_runs, model_calls, fill_result, o_exc, steps,
           audit>>

mvars == <<e_pc, email_parts, attachments, fetched, downloaded_files, filled, replies>>

jvars == <<json_file, j_pc, existing_data, j_response, j_writes, j_ret, j_raised>>

vars == <<cvars, ovars, mvars, jvars>>

(***************************************************************************)
(* Bounds                                                                  *)
(***************************************************************************)
MaxRetry == 3

(***************************************************************************)
(* Program constants                                                       *)
(***************************************************************************)
DefaultRetryCount == 3
DefaultBackoffFactor == 2

(***************************************************************************)
(* Strings as sequences; str.replace                                       *)
(***************************************************************************)
EmptyStr == <<>>

RECURSIVE Replace(_, _, _)
\* str.replace(old, new): every non-overlapping occurrence, left to right.
Replace(s, old, new) ==
    IF Len(s) < Len(old) THEN s
    ELSE IF SubSeq(s, 1, Len(old)) = old
         THEN new \o Replace(SubSeq(s, Len(old) + 1, Len(s)), old, new)
         ELSE <<Head(s)>> \o Replace(Tail(s), old, new)

\* The texts of two.py:57-58, character by character.
PleaseExtract ==
    <<"P", "l", "e", "a", "s", "e", " ", "e", "x", "t", "r", "a", "c", "t">>

KindlyProvide ==
    <<"K", "i", "n", "d", "l", "y", " ", "p", "r", "o", "v", "i", "d", "e">>

ExtractWord ==
    <<"e", "x", "t", "r", "a", "c", "t">>

IdentifyAndProvide ==
    <<"i", "d", "e", "n", "t", "i", "f", "y", " ", "a", "n", "d", " ", "p", "r", "o",
      "v", "i", "d", "e">>

\* two.py:49-60: two str.replace calls, the second on the result of the first.
modify_prompt_for_safety(original_prompt) ==
    Replace(Replace(original_prompt, PleaseExtract, KindlyProvide),
            ExtractWord, IdentifyAndProvide)

(***************************************************************************)
(* Field names and data keys.  A name is an atomic value; Spelling gives   *)
(* the characters of the Python string it stands for.                      *)
(***************************************************************************)
FieldNames == {"Seller's Name", "Buyer's Name", "ZIP"}

KeyNames ==
    {"seller_name", "buyer_name", "unrelated_key", "sellers", "ip_addr", "Zip", "zip"}

\* Names that occur only in what the model writes.
InventedNames == {"Invented Field", "made_up_key"}

Names == FieldNames \cup KeyNames \cup InventedNames

Spelling(n) ==
    CASE n = "Seller's Name" -> <<"S", "e", "l", "l", "e", "r", "'", "s", " ", "N", "a", "m", "e">>
      [] n = "Buyer's Name" -> <<"B", "u", "y", "e", "r", "'", "s", " ", "N", "a", "m", "e">>
      [] n = "ZIP" -> <<"Z", "I", "P">>
      [] n = "zip" -> <<"z", "i", "p">>
      [] n = "Invented Field" -> <<"I", "n", "v", "e", "n", "t", "e", "d", " ", "F", "i", "e", "l", "d">>
      [] n = "seller_name" -> <<"s", "e", "l", "l", "e", "r", "_", "n", "a", "m", "e">>
      [] n = "buyer_name" -> <<"b", "u", "y", "e", "r", "_", "n", "a", "m", "e">>
      [] n = "unrelated_key" -> <<"u", "n", "r", "e", "l", "a", "t", "e", "d", "_", "k", "e", "y">>
      [] n = "sellers" -> <<"s", "e", "l", "l", "e", "r", "s">>
      [] n = "ip_addr" -> <<"i", "p", "_", "a", "d", "d", "r">>
      [] n = "Zip" -> <<"Z", "i", "p">>
      [] n = "made_up_key" -> <<"m", "a", "d", "e", "_", "u", "p", "_", "k", "e", "y">>

\* Python's None.
None == "None"

\* The characters in code-point order, for comparisons and str.lower().
Alphabet == <<
    " ", "'", "A", "B", "C", "D", "E", "F", "G", "H", "I", "J", "K",
    "L", "M", "N", "O", "P", "Q", "R", "S", "T", "U", "V", "W", "X",
    "Y", "Z", "_", "a", "b", "c", "d", "e", "f", "g", "h", "i", "j",
    "k", "l", "m", "n", "o", "p", "q", "r", "s", "t", "u", "v", "w",
    "x", "y", "z">>

CharCode(c) == CHOOSE i \in 1..Len(Alphabet) : Alphabet[i] = c

UpperChars == <<
    "A", "B", "C", "D", "E", "F", "G", "H", "I", "J", "K", "L", "M",
    "N", "O", "P", "Q", "R", "S", "T", "U", "V", "W", "X", "Y", "Z">>

LowerChars == <<
    "a", "b", "c", "d", "e", "f", "g", "h", "i", "j", "k", "l", "m",
    "n", "o", "p", "q", "r", "s", "t", "u", "v", "w", "x", "y", "z">>

\* str.lower() on one character: "A".."Z" map to "a".."z".
LowerChar(c) ==
    IF \E i \in 1..Len(UpperChars) : UpperChars[i] = c
    THEN LowerChars[CHOOSE i \in 1..Len(UpperChars) : UpperChars[i] = c]
    ELSE c

\* str.lower()
Lower(s) == [i \in 1..Len(s) |-> LowerChar(s[i])]

(***************************************************************************)
(* rapidfuzz.fuzz.ratio: 100 * 2 * LCS(a, b) / (len(a) + len(b)), the      *)
(* normalised Indel similarity.  A score is kept as an exact fraction      *)
(* num/den so that comparisons with the thresholds are exact.              *)
(***************************************************************************)
Max(a, b) == IF a > b THEN a ELSE b

RECURSIVE LCSRowStep(_, _, _, _, _)
\* One row of the longest-common-subsequence table, left to right.
LCSRowStep(prev, ai, b, j, acc) ==
    IF j > Len(b) THEN acc
    ELSE LET cell == IF ai = b[j] THEN prev[j] + 1 ELSE Max(prev[j + 1], acc[j])
         IN IF cell >= 0 THEN LCSRowStep(prev, ai, b, j + 1, Append(acc, cell)) ELSE acc

RECURSIVE LCSRows(_, _, _, _)
LCSRows(a, b, i, prev) ==
    IF i > Len(a) THEN prev[Len(b) + 1]
    ELSE LET row == LCSRowStep(prev, a[i], b, 1, <<0>>)
         IN IF Len(row) > 0 THEN LCSRows(a, b, i + 1, row) ELSE 0

\* Length of the longest common subsequence of two character sequences.
LCS(a, b) == LCSRows(a, b, 1, [j \in 1..(Len(b) + 1) |-> 0])

Score(num, den) == [num |-> num, den |-> den]

ZeroScore == Score(0, 1)

\* a > b on scores
ScoreGt(a, b) == a.num * b.den > b.num * a.den

\* score > t for an integer t
ScoreAbove(s, t) == s.num > t * s.den

\* score + t for an integer t
ScorePlus(s, t) == Score(s.num + t * s.den, s.den)

\* fuzz.ratio(a, b) on character sequences.
Ratio(a, b) ==
    IF Len(a) + Len(b) = 0 THEN Score(100, 1)
    ELSE Score(200 * LCS(a, b), Len(a) + Len(b))

(***************************************************************************)
(* Python dicts, as sequences of <<key, value>> pairs in insertion order    *)
(***************************************************************************)
EmptyDict == <<>>

DictKeys(d) == {d[i][1] : i \in 1..Len(d)}

DictHas(d, k) == k \in DictKeys(d)

DictGet(d, k) == d[CHOOSE i \in 1..Len(d) : d[i][1] = k][2]

\* d[k] = v: replaces the value in place, or appends a new pair.
DictSet(d, k, v) ==
    IF DictHas(d, k)
    THEN [i \in 1..Len(d) |-> IF d[i][1] = k THEN <<k, v>> ELSE d[i]]
    ELSE Append(d, <<k, v>>)

(***************************************************************************)
(* fallback_fuzzy_matching (one.py:276-284)                                *)
(***************************************************************************)
FallbackThreshold == 70

\* fuzz.ratio(field.lower(), x.lower()) for every pair of names, computed once.
FuzzRatioTable ==
    [pair \in Names \X Names |->
        Ratio(Lower(Spelling(pair[1])), Lower(Spelling(pair[2])))] @@ <<>>

\* fuzz.ratio(field.lower(), x.lower())
FuzzRatio(field, x) == FuzzRatioTable[<<field, x>>]

RECURSIVE PyMaxFrom(_, _, _, _)
\* max(data_keys, key=...): the first element with the largest key.
PyMaxFrom(field, data_keys, i, best) ==
    IF i > Len(data_keys) THEN best
    ELSE IF ScoreGt(FuzzRatio(field, data_keys[i]), FuzzRatio(field, best))
         THEN PyMaxFrom(field, data_keys, i + 1, data_keys[i])
         ELSE PyMaxFrom(field, data_keys, i + 1, best)

\* A variant of max that takes the first key whatever its score.
PyMaxFirst(field, data_keys) == data_keys[1]

PyMax(field, data_keys) == PyMaxFrom(field, data_keys, 2, data_keys[1])

\* A variant of the acceptance test that also accepts a score equal to the
\* threshold.
FallbackAcceptsAtThreshold(field, best_match) ==
    ~ScoreGt(Score(FallbackThreshold, 1), FuzzRatio(field, best_match))

\* Line 280: fuzz.ratio(field.lower(), best_match.lower()) > 70
FallbackAccepts(field, best_match) ==
    ScoreAbove(FuzzRatio(field, best_match), FallbackThreshold)

RECURSIVE FallbackLoop(_, _, _, _)
FallbackLoop(pdf_fields, data_keys, i, matched) ==
    IF i > Len(pdf_fields) THEN matched
    ELSE LET field == pdf_fields[i]
             best_match == PyMax(field, data_keys)
         IN FallbackLoop(pdf_fields, data_keys, i + 1,
                DictSet(matched, field,
                        IF FallbackAccepts(field, best_match) THEN best_match ELSE None))

\* The call's outcome: the returned dict, or the exception that leaves it.
\* max() of an empty list raises ValueError (line 279).
fallback_fuzzy_matching(pdf_fields, data_keys) ==
    IF pdf_fields # <<>> /\ data_keys = <<>>
    THEN [exc |-> "ValueError", value |-> EmptyDict]
    ELSE [exc |-> "", value |-> FallbackLoop(pdf_fields, data_keys, 1, EmptyDict)]

(***************************************************************************)
(* find_best_match (important_agent.py:131-164, three.py:246-280,          *)
(* research.py:119-146)                                                    *)
(***************************************************************************)
BestMatchThreshold == 40
EntityBoost == 10

\* Entity labels spaCy may attach to a name.
EntityLabels == {"PERSON", "GPE"}

RECURSIVE SplitFrom(_, _, _, _)
\* str.split(): maximal runs of non-space characters.
SplitFrom(s, i, cur, acc) ==
    IF i > Len(s) THEN (IF cur = <<>> THEN acc ELSE Append(acc, cur))
    ELSE IF s[i] = " "
         THEN SplitFrom(s, i + 1, <<>>, IF cur = <<>> THEN acc ELSE Append(acc, cur))
         ELSE SplitFrom(s, i + 1, Append(cur, s[i]), acc)

Split(s) == SplitFrom(s, 1, <<>>, <<>>)

RECURSIVE StrLess(_, _)
\* a < b on strings: lexicographic by code point.
StrLess(a, b) ==
    IF b = <<>> THEN FALSE
    ELSE IF a = <<>> THEN TRUE
    ELSE IF Head(a) = Head(b) THEN StrLess(Tail(a), Tail(b))
    ELSE CharCode(Head(a)) < CharCode(Head(b))

RECURSIVE InsertSorted(_, _)
InsertSorted(sorted, w) ==
    IF sorted = <<>> THEN <<w>>
    ELSE IF StrLess(w, Head(sorted)) THEN <<w>> \o sorted
    ELSE <<Head(sorted)>> \o InsertSorted(Tail(sorted), w)

RECURSIVE SortWords(_)
\* sorted(words)
SortWords(words) ==
    IF words = <<>> THEN <<>>
    ELSE InsertSorted(SortWords(SubSeq(words, 1, Len(words) - 1)), words[Len(words)])

RECURSIVE JoinWords(_)
\* " ".join(words)
JoinWords(words) ==
    IF words = <<>> THEN <<>>
    ELSE IF Len(words) = 1 THEN words[1]
    ELSE words[1] \o <<" ">> \o JoinWords(Tail(words))

\* fuzz.token_sort_ratio(a, b): the ratio of the two strings with their
\* whitespace-separated words sorted.
TokenSortRatio(a, b) == Ratio(JoinWords(SortWords(Split(a))), JoinWords(SortWords(Split(b))))

\* Line 144, fuzz.token_sort_ratio(field_name.lower(), key.lower()), for
\* every pair of names, computed once.
TokenSortRatioTable ==
    [pair \in Names \X Names |->
        TokenSortRatio(Lower(Spelling(pair[1])), Lower(Spelling(pair[2])))] @@ <<>>

\* A variant that adds the boost whatever the entity labels.
PairScoreAlwaysBoosted(field_name, key, e) ==
    ScorePlus(TokenSortRatioTable[<<field_name, key>>], EntityBoost)

\* Lines 144-150: the score of one field/key pair; e gives the entity labels
\* of each (lower-cased) name.
PairScore(field_name, key, e) ==
    LET score == TokenSortRatioTable[<<field_name, key>>]
    IN IF e[field_name] \cap e[key] # {} THEN ScorePlus(score, EntityBoost) ELSE score

RECURSIVE BestMatchLoop(_, _, _, _, _)
\* Lines 142-157: the scan, as <<best_match, best_score>>.
BestMatchLoop(field_name, keys, e, i, best) ==
    IF i > Len(keys) THEN best
    ELSE LET score == PairScore(field_name, keys[i], e)
         IN IF ScoreGt(score, best[2])
            THEN BestMatchLoop(field_name, keys, e, i + 1, <<keys[i], score>>)
            ELSE BestMatchLoop(field_name, keys, e, i + 1, best)

\* Line 164: return best_match if best_score > 40 else None
find_best_match(field_name, keys, e) ==
    LET best == BestMatchLoop(field_name, keys, e, 1, <<None, ZeroScore>>)
    IN IF ScoreAbove(best[2], BestMatchThreshold) THEN best[1] ELSE None

(***************************************************************************)
(* Model responses as token sequences: the opening and closing fences of   *)
(* a code block, white space (blank and newline), JSON punctuation, null,  *)
(* JSON string literals (a token that is a name stands for that name in    *)
(* quotes), and words of prose.                                            *)
(***************************************************************************)
WhiteSpace == {" ", "\n"}

\* Tokens in which the three backquotes of a fence occur: FENCE_JSON is the
\* three backquotes followed by the word json, FENCE_PYTHON the three
\* backquotes followed by the word python, FENCE the three backquotes.
FenceTokens == {"FENCE_JSON", "FENCE_PYTHON", "FENCE"}

RECURSIVE LStrip(_)
LStrip(text) ==
    IF text # <<>> /\ Head(text) \in WhiteSpace THEN LStrip(Tail(text)) ELSE text

RECURSIVE RStrip(_)
RStrip(text) ==
    IF text # <<>> /\ text[Len(text)] \in WhiteSpace
    THEN RStrip(SubSeq(text, 1, Len(text) - 1))
    ELSE text

\* str.strip()
Strip(text) == RStrip(LStrip(text))

SetMin(S) == CHOOSE x \in S : \A y \in S : x <= y

SetMax(S) == CHOOSE x \in S : \A y \in S : x >= y

\* A variant that leaves the interior of the block untrimmed.
strip_code_blocks_untrimmed(text) ==
    LET opens == {i \in 1..Len(text) :
                     /\ text[i] = "FENCE_JSON"
                     /\ \E j \in (i + 1)..Len(text) : text[j] \in FenceTokens}
    IN IF opens = {} THEN Strip(text)
       ELSE LET i == SetMin(opens)
                j == SetMin({k \in (i + 1)..Len(text) : text[k] \in FenceTokens})
            IN SubSeq(text, i + 1, j - 1)

\* one.py:226-239.  The pattern is searched with re.DOTALL: the match starts
\* at the leftmost json fence that is followed by some fence (the first three
\* characters of a later json fence count), the group being what lies between
\* it and the nearest such fence; group(1).strip() removes the white space
\* the pattern leaves at either end.
strip_code_blocks(text) ==
    LET opens == {i \in 1..Len(text) :
                     /\ text[i] = "FENCE_JSON"
                     /\ \E j \in (i + 1)..Len(text) : text[j] \in FenceTokens}
    IN IF opens = {} THEN Strip(text)
       ELSE LET i == SetMin(opens)
                j == SetMin({k \in (i + 1)..Len(text) : text[k] \in FenceTokens})
            IN Strip(SubSeq(text, i + 1, j - 1))

\* The brace pattern searched with re.DOTALL: from the first opening brace to
\* the last closing brace after it; the empty sequence when nothing matches.
BraceSpan(text) ==
    LET opens == {i \in 1..Len(text) : text[i] = "{"}
    IN IF opens = {} THEN <<>>
       ELSE LET i == SetMin(opens)
                closes == {j \in (i + 1)..Len(text) : text[j] = "}"}
            IN IF closes = {} THEN <<>> ELSE SubSeq(text, i, SetMax(closes))

(***************************************************************************)
(* json.loads on token sequences, for flat documents: null, a string, a    *)
(* number, an array of strings/nulls, an object whose values are strings   *)
(* or null.                                                                *)
(* The result records whether decoding succeeded, the type of the value,   *)
(* the dict (for an object) and the number of elements.                    *)
(***************************************************************************)
JsonValue(type, dict, len) == [ok |-> TRUE, type |-> type, dict |-> dict, len |-> len]

\* json.JSONDecodeError
JsonDecodeError == [ok |-> FALSE, type |-> "none", dict |-> EmptyDict, len |-> 0]

\* The dict {} as a value.
JsonEmptyObject == JsonValue("object", EmptyDict, 0)

\* bool(value)
Truthy(v) == v.ok /\ v.type \in {"object", "array", "string", "number"} /\ v.len > 0

IsDict(v) == v.ok /\ v.type = "object"

RECURSIVE ParseMembers(_, _)
\* "name" : value { , "name" : value }  -- later duplicates overwrite
ParseMembers(ts, acc) ==
    IF Len(ts) < 3 THEN JsonDecodeError
    ELSE IF ts[1] \notin Names \/ ts[2] # ":" \/ ts[3] \notin (Names \cup {"null"})
         THEN JsonDecodeError
    ELSE LET acc2 == DictSet(acc, ts[1], IF ts[3] = "null" THEN None ELSE ts[3])
         IN IF Len(ts) = 3 THEN JsonValue("object", acc2, Len(acc2))
            ELSE IF ts[4] = "," THEN ParseMembers(SubSeq(ts, 5, Len(ts)), acc2)
            ELSE JsonDecodeError

RECURSIVE ParseElements(_, _)
\* value { , value }
ParseElements(ts, n) ==
    IF ts = <<>> THEN JsonDecodeError
    ELSE IF ts[1] \notin (Names \cup {"null"}) THEN JsonDecodeError
    ELSE IF Len(ts) = 1 THEN JsonValue("array", EmptyDict, n + 1)
    ELSE IF ts[2] = "," THEN ParseElements(SubSeq(ts, 3, Len(ts)), n + 1)
    ELSE JsonDecodeError

\* Tokens that are JSON numbers (none of them zero).
NumberTokens == {"42"}

\* White space between JSON tokens is insignificant.
NoWhiteSpace(text) == SelectSeq(text, LAMBDA t : t \notin WhiteSpace)

\* json.loads(text)
JsonLoads(text) ==
    LET ts == NoWhiteSpace(text) IN
    IF ts = <<>> THEN JsonDecodeError
    ELSE IF ts = <<"null">> THEN JsonValue("null", EmptyDict, 0)
    ELSE IF Len(ts) = 1 /\ ts[1] \in Names THEN JsonValue("string", EmptyDict, 1)
    ELSE IF Len(ts) = 1 /\ ts[1] \in NumberTokens THEN JsonValue("number", EmptyDict, 1)
    ELSE IF ts = <<"{", "}">> THEN JsonEmptyObject
    ELSE IF ts = <<"[", "]">> THEN JsonValue("array", EmptyDict, 0)
    ELSE IF ts[1] = "{" /\ ts[Len(ts)] = "}" THEN ParseMembers(SubSeq(ts, 2, Len(ts) - 1), EmptyDict)
    ELSE IF ts[1] = "[" /\ ts[Len(ts)] = "]" THEN ParseElements(SubSeq(ts, 2, Len(ts) - 1), 0)
    ELSE JsonDecodeError

(***************************************************************************)
(* HTTP response bodies.  A body is described by the shape the clients     *)
(* inspect: whether it is JSON, the type of the top level, of 'candidates',*)
(* of the first candidate, its finishReason, 'content', 'parts', the first *)
(* part and its 'text'.                                                    *)
(***************************************************************************)
Body(json, top, candidates, first, finishReason, content, parts, part0, hasText, text) ==
    [json |-> json, top |-> top, candidates |-> candidates, first |-> first,
     finishReason |-> finishReason, content |-> content, parts |-> parts,
     part0 |-> part0, hasText |-> hasText, text |-> text]

\* A well-formed candidate with generated text t and the given finishReason.
Candidate(finishReason, t) ==
    Body(TRUE, "object", "list", "object", finishReason, "object", "list", "object", TRUE, t)

NonJsonBody       == Body(FALSE, "none", "absent", "object", "absent", "absent", "absent", "object", FALSE, EmptyStr)
TopArrayBody      == Body(TRUE, "array", "absent", "object", "absent", "absent", "absent", "object", FALSE, EmptyStr)
TopNullBody       == Body(TRUE, "null", "absent", "object", "absent", "absent", "absent", "object", FALSE, EmptyStr)
NoCandidatesBody  == Body(TRUE, "object", "absent", "object", "absent", "absent", "absent", "object", FALSE, EmptyStr)
EmptyCandidatesBody == Body(TRUE, "object", "empty", "object", "absent", "absent", "absent", "object", FALSE, EmptyStr)
CandidatesObjectBody == Body(TRUE, "object", "object", "object", "absent", "absent", "absent", "object", FALSE, EmptyStr)
FirstNotObjectBody == Body(TRUE, "object", "list", "string", "absent", "absent", "absent", "object", FALSE, EmptyStr)
SafetyBody        == Body(TRUE, "object", "list", "object", "SAFETY", "absent", "absent", "object", FALSE, EmptyStr)
NoContentBody     == Body(TRUE, "object", "list", "object", "STOP", "absent", "absent", "object", FALSE, EmptyStr)
NullContentBody   == Body(TRUE, "object", "list", "object", "STOP", "null", "absent", "object", FALSE, EmptyStr)
EmptyPartsBody    == Body(TRUE, "object", "list", "object", "STOP", "object", "empty", "object", FALSE, EmptyStr)
PartNotObjectBody == Body(TRUE, "object", "list", "object", "STOP", "object", "list", "string", FALSE, EmptyStr)
NoTextBody        == Body(TRUE, "object", "list", "object", "STOP", "object", "list", "object", FALSE, EmptyStr)

MalformedBodies ==
    {NonJsonBody, TopArrayBody, TopNullBody, NoCandidatesBody, EmptyCandidatesBody,
     CandidatesObjectBody, FirstNotObjectBody, NoContentBody, NullContentBody,
     EmptyPartsBody, PartNotObjectBody, NoTextBody, Candidate("STOP", EmptyStr)}

\* Bodies that are JSON but whose top level or first candidate is not an object.
NotObjectBodies == {TopArrayBody, TopNullBody, FirstNotObjectBody}

(***************************************************************************)
(* two.py call_gemini_api: what lines 100-140 do with a 2xx response.      *)
(*   "not_json" | "no_candidates" | "no_parts" | "no_text"  -> return ""   *)
(*   "safety"    -> the finishReason == 'SAFETY' branch                    *)
(*   "ok"        -> return generated_text                                  *)
(*   "exception" -> AttributeError/KeyError/TypeError, caught at line 147  *)
(***************************************************************************)
ParseTwo(b) ==
    IF ~b.json THEN "not_json"                                   \* 101-106
    ELSE IF b.top # "object" THEN "exception"                    \* 108 data.get
    ELSE IF b.candidates \in {"absent", "empty"} THEN "no_candidates"  \* 109-111
    ELSE IF b.candidates # "list" THEN "exception"               \* 113 candidates[0]
    ELSE IF b.first # "object" THEN "exception"                  \* 114 .get
    ELSE IF b.finishReason = "SAFETY" THEN "safety"              \* 115
    ELSE IF b.content = "null" THEN "exception"                  \* 130 content.get
    ELSE IF b.content = "absent" \/ b.parts \in {"absent", "empty"} THEN "no_parts" \* 131-133
    ELSE IF b.part0 # "object" THEN "exception"                  \* 135 parts[0].get
    ELSE IF ~b.hasText \/ b.text = EmptyStr THEN "no_text"       \* 136-138
    ELSE "ok"                                                    \* 140

RECURSIVE Pow(_, _)
Pow(b, e) == IF e = 0 THEN 1 ELSE b * Pow(b, e - 1)

(***************************************************************************)
(* Inputs of the client                                                    *)
(***************************************************************************)
\* Prompts, character by character: with "Please extract", with a bare
\* "extract", without the word (the wording of the prompts two.py builds at
\* lines 332 and 439), with the capitalised word, which is not the substring
\* the rewrite looks for, and with "extract" directly followed by "xtract".
Prompts ==
    {<<"P", "l", "e", "a", "s", "e", " ", "e", "x", "t", "r", "a", "c", "t", " ", "t",
       "h", "e", " ", "d", "a", "t", "a">>,
     <<"N", "o", "w", " ", "e", "x", "t", "r", "a", "c", "t", " ", "f", "i", "e", "l",
       "d", "s">>,
     <<"P", "l", "e", "a", "s", "e", " ", "i", "d", "e", "n", "t", "i", "f", "y", " ",
       "a", "n", "d", " ", "p", "r", "o", "v", "i", "d", "e", " ", "t", "h", "e", " ",
       "d", "a", "t", "a">>,
     <<"E", "x", "t", "r", "a", "c", "t", " ", "t", "h", "e", " ", "d", "a", "t", "a">>,
     <<"e", "x", "t", "r", "a", "c", "t", "x", "t", "r", "a", "c", "t">>}

BackoffFactors == {DefaultBackoffFactor, DefaultBackoffFactor + 1}

\* Texts a well-formed candidate may carry when the client is run alone.
ClientTexts == {<<"answer", "one">>, <<"answer", "two">>}

ClientBodies ==
    MalformedBodies \cup {SafetyBody} \cup {Candidate("STOP", t) : t \in ClientTexts}
                    \cup {Candidate("absent", t) : t \in ClientTexts}

(***************************************************************************)
(* two.py call_gemini_api                                                  *)
(***************************************************************************)
\* What one loop iteration met, and the generated text it carried (if any).
Outcome(kind, text) == [kind |-> kind, text |-> text]

\* Entry: lines 62-92, the parameters and the payload built from the prompt.
\* The module does not load without GEMINI_API_KEY (two.py:45-47).
StartTwo(p, n, bf) ==
    /\ client' = "two"
    /\ api_key' = TRUE
    /\ c_pc' = "loop"
    /\ retry_count' = n
    /\ backoff_factor' = bf
    /\ attempt' = 0
    /\ prompt' = p
    /\ payload' = p
    /\ response_bound' = FALSE
    /\ sent' = <<>>
    /\ slept' = <<>>
    /\ outcomes' = <<>>
    /\ rewrites' = 0
    /\ ret' = EmptyStr
    /\ raised' = ""

\* return <text> from inside the loop.
ReturnTwo(kind, text) ==
    /\ c_pc' = "done"
    /\ ret' = text
    /\ outcomes' = Append(outcomes, Outcome(kind, text))
    /\ UNCHANGED <<client, api_key, retry_count, backoff_factor, attempt, prompt, payload,
                   slept, rewrites, raised>>

\* A variant that waits backoff_factor * attempt.
BackoffTwoLinear(kind) ==
    /\ slept' = Append(slept, backoff_factor * attempt)
    /\ attempt' = attempt + 1
    /\ outcomes' = Append(outcomes, Outcome(kind, EmptyStr))
    /\ UNCHANGED <<client, api_key, c_pc, retry_count, backoff_factor, prompt, payload,
                   rewrites, ret, raised>>

\* A variant that rewrites the prompt before every retry.
BackoffTwoRewriting(kind) ==
    /\ slept' = Append(slept, Pow(backoff_factor, attempt))
    /\ attempt' = attempt + 1
    /\ outcomes' = Append(outcomes, Outcome(kind, EmptyStr))
    /\ prompt' = modify_prompt_for_safety(prompt)
    /\ payload' = modify_prompt_for_safety(prompt)
    /\ UNCHANGED <<client, api_key, c_pc, retry_count, backoff_factor, rewrites, ret, raised>>

\* A variant that sleeps without counting the iteration.
BackoffTwoUncounted(kind) ==
    /\ slept' = Append(slept, Pow(backoff_factor, attempt))
    /\ outcomes' = Append(outcomes, Outcome(kind, EmptyStr))
    /\ UNCHANGED <<client, api_key, c_pc, retry_count, backoff_factor, attempt, prompt, payload,
                   rewrites, ret, raised>>

\* Lines 151-154: sleep backoff_factor ** attempt, then the next iteration.
BackoffTwo(kind) ==
    /\ slept' = Append(slept, Pow(backoff_factor, attempt))
    /\ attempt' = attempt + 1
    /\ outcomes' = Append(outcomes, Outcome(kind, EmptyStr))
    /\ UNCHANGED <<client, api_key, c_pc, retry_count, backoff_factor, prompt, payload,
                   rewrites, ret, raised>>

\* A variant of the safety branch that gives up after the first block.
SafetyBranchNoRetry ==
    ReturnTwo("safety", EmptyStr)

\* A variant of the safety branch that retries without rewriting the prompt.
SafetyBranchNoRewrite ==
    IF attempt < retry_count - 1
    THEN BackoffTwo("safety")
    ELSE ReturnTwo("safety", EmptyStr)

\* Lines 115-127: the finishReason == 'SAFETY' branch.
SafetyBranch ==
    IF attempt < retry_count - 1
    THEN /\ slept' = Append(slept, Pow(backoff_factor, attempt))
         /\ prompt' = modify_prompt_for_safety(prompt)
         /\ payload' = modify_prompt_for_safety(prompt)
         /\ rewrites' = rewrites + 1
         /\ attempt' = attempt + 1
         /\ outcomes' = Append(outcomes, Outcome("safety", EmptyStr))
         /\ UNCHANGED <<client, api_key, c_pc, retry_count, backoff_factor, ret, raised>>
    ELSE ReturnTwo("safety", EmptyStr)

InLoopTwo == client = "two" /\ c_pc = "loop" /\ attempt < retry_count

\* requests.post raises a RequestException (timeout, connection error): 145-146.
PostRequestException ==
    /\ InLoopTwo
    /\ sent' = Append(sent, payload)
    /\ UNCHANGED response_bound
    /\ BackoffTwo("timeout")

\* A variant that gives up on the first transport failure.
PostHTTPErrorNoRetry ==
    /\ InLoopTwo
    /\ sent' = Append(sent, payload)
    /\ response_bound' = TRUE
    /\ ReturnTwo("http_error", EmptyStr)

\* raise_for_status raises HTTPError: 97, 142-144 (response is bound).
PostHTTPError ==
    /\ InLoopTwo
    /\ sent' = Append(sent, payload)
    /\ response_bound' = TRUE
    /\ BackoffTwo("http_error")

\* requests.post raises something that is no RequestException: 147-149.
\* Line 149 reads response.text; with no response assigned in this call the
\* read raises UnboundLocalError inside the handler, which leaves the function.
PostUnexpectedException ==
    /\ InLoopTwo
    /\ sent' = Append(sent, payload)
    /\ UNCHANGED response_bound
    /\ IF response_bound
       THEN BackoffTwo("unexpected")
       ELSE /\ c_pc' = "done"
            /\ raised' = "UnboundLocalError"
            /\ outcomes' = Append(outcomes, Outcome("unexpected", EmptyStr))
            /\ UNCHANGED <<client, api_key, retry_count, backoff_factor, attempt, prompt,
                           payload, slept, rewrites, ret>>

\* A 2xx response with body b: lines 96-140, and 147-154 when handling the
\* body raises.
PostResponse(b) ==
    /\ InLoopTwo
    /\ sent' = Append(sent, payload)
    /\ response_bound' = TRUE
    /\ LET r == ParseTwo(b) IN
         CASE r = "ok" -> ReturnTwo("ok", b.text)
           [] r = "safety" -> SafetyBranch
           [] r = "exception" -> BackoffTwo("exception")
           [] OTHER -> ReturnTwo(r, EmptyStr)

\* Line 156: the loop ran out.
LoopExhausted ==
    /\ client = "two" /\ c_pc = "loop" /\ attempt >= retry_count
    /\ c_pc' = "done"
    /\ ret' = EmptyStr
    /\ UNCHANGED <<client, api_key, retry_count, backoff_factor, attempt, prompt, payload,
                   response_bound, sent, slept, outcomes, rewrites, raised>>

(***************************************************************************)
(* one.py call_gemini_api: one request, no retry, only RequestException    *)
(* caught.                                                                 *)
(***************************************************************************)
\* What lines 359-368 do with a 2xx response.
\*   "not_json"  -> response.json() raises requests' JSONDecodeError, a
\*                  RequestException (requests >= 2.27), caught at line 369
\*   "unexpected_structure" -> the else branch, return ""
\*   "ok"        -> return generated_text
\*   "exception" -> TypeError/KeyError/IndexError, which nothing catches
ParseOne(b) ==
    IF ~b.json THEN "not_json"                                   \* 359
    ELSE IF b.top = "null" THEN "exception"                      \* 361 'candidates' in None
    ELSE IF b.top # "object" THEN "unexpected_structure"         \* 361, 366-368
    ELSE IF b.candidates \in {"absent", "empty"} THEN "unexpected_structure"
    ELSE IF b.candidates # "list" THEN "exception"               \* 362 [0]
    ELSE IF b.first # "object" THEN "exception"                  \* 362 ['content']
    ELSE IF b.content # "object" THEN "exception"                \* 362 ['content']['parts']
    ELSE IF b.parts # "list" THEN "exception"                    \* 362 ['parts'][0]
    ELSE IF b.part0 # "object" THEN "exception"                  \* 362 [0]['text']
    ELSE IF ~b.hasText THEN "exception"                          \* 362 ['text']
    ELSE "ok"                                                    \* 365

\* A variant that goes on to the request without the key.
StartOneIgnoringKey(p, has_key) ==
    /\ client' = "one"
    /\ api_key' = has_key
    /\ c_pc' = "loop"
    /\ retry_count' = 1
    /\ backoff_factor' = DefaultBackoffFactor
    /\ attempt' = 0
    /\ prompt' = p
    /\ payload' = p
    /\ response_bound' = FALSE
    /\ sent' = <<>>
    /\ slept' = <<>>
    /\ outcomes' = <<>>
    /\ rewrites' = 0
    /\ ret' = EmptyStr
    /\ raised' = ""

\* Entry: lines 328-350.  Without GEMINI_API_KEY the function returns "" at
\* line 332 before any request.
StartOne(p, has_key) ==
    /\ client' = "one"
    /\ api_key' = has_key
    /\ c_pc' = IF has_key THEN "loop" ELSE "done"
    /\ retry_count' = 1
    /\ backoff_factor' = DefaultBackoffFactor
    /\ attempt' = 0
    /\ prompt' = p
    /\ payload' = p
    /\ response_bound' = FALSE
    /\ sent' = <<>>
    /\ slept' = <<>>
    /\ outcomes' = <<>>
    /\ rewrites' = 0
    /\ ret' = EmptyStr
    /\ raised' = ""

\* The single request ends the call: with a return value or with an exception.
FinishOne(kind, text, exc) ==
    /\ c_pc' = "done"
    /\ sent' = Append(sent, payload)
    /\ outcomes' = Append(outcomes, Outcome(kind, text))
    /\ ret' = text
    /\ raised' = exc
    /\ attempt' = attempt + 1
    /\ UNCHANGED <<client, api_key, retry_count, backoff_factor, prompt, payload, slept, rewrites>>

InTryOne == client = "one" /\ c_pc = "loop"

\* requests.post or raise_for_status raises a RequestException: 369-373.
OneRequestException ==
    /\ InTryOne
    /\ UNCHANGED response_bound
    /\ \E kind \in {"timeout", "http_error"} : FinishOne(kind, EmptyStr, "")

\* requests.post raises something that is no RequestException: not caught.
OneUnexpectedException ==
    /\ InTryOne
    /\ UNCHANGED response_bound
    /\ FinishOne("unexpected", EmptyStr, "Exception")

\* A 2xx response with body b: lines 353-368.
OneResponse(b) ==
    /\ InTryOne
    /\ response_bound' = TRUE
    /\ LET r == ParseOne(b) IN
         CASE r = "ok" -> FinishOne("ok", b.text, "")
           [] r = "exception" -> FinishOne("exception", EmptyStr, "LookupError")
           [] OTHER -> FinishOne(r, EmptyStr, "")

(***************************************************************************)
(* The clients called directly                                             *)
(***************************************************************************)
\* call_gemini_api(prompt, retry_count=n, backoff_factor=bf) of two.py.
CallGeminiApi ==
    /\ c_pc = "idle"
    /\ \E p \in Prompts, n \in 0..MaxRetry, bf \in BackoffFactors : StartTwo(p, n, bf)

\* call_gemini_api(prompt) of one.py, with or without GEMINI_API_KEY set.
CallGeminiApiOne ==
    /\ c_pc = "idle"
    /\ \E p \in Prompts, has_key \in BOOLEAN : StartOne(p, has_key)

ClientInit ==
    /\ client = "none"
    /\ api_key = FALSE
    /\ c_pc = "idle"
    /\ retry_count = 0
    /\ backoff_factor = DefaultBackoffFactor
    /\ attempt = 0
    /\ prompt = EmptyStr
    /\ payload = EmptyStr
    /\ response_bound = FALSE
    /\ sent = <<>>
    /\ slept = <<>>
    /\ outcomes = <<>>
    /\ rewrites = 0
    /\ ret = EmptyStr
    /\ raised = ""

\* The steps of a running call, whoever started it.
ClientStep(bodies) ==
    \/ PostRequestException
    \/ PostHTTPError
    \/ PostUnexpectedException
    \/ \E b \in bodies : PostResponse(b)
    \/ LoopExhausted
    \/ OneRequestException
    \/ OneUnexpectedException
    \/ \E b \in bodies : OneResponse(b)

(***************************************************************************)
(* Forms, data and what the model may answer                               *)
(***************************************************************************)
MaxFields == 2

MaxKeys == 2

\* Lists of at most n elements of S.
ListsUpTo(S, n) == UNION {[1..k -> S] : k \in 0..n}

NoDuplicates(l) == \A i, j \in 1..Len(l) : l[i] = l[j] => i = j

FieldLists == ListsUpTo(FieldNames, MaxFields)

KeyLists == ListsUpTo(KeyNames, MaxKeys)

\* data[key] for the data dicts considered; "" is the empty string.
ValueOf(key) ==
    CASE key = "seller_name" -> "John Doe"
      [] key = "buyer_name" -> "Jane Smith"
      [] key = "unrelated_key" -> "xyz"
      [] key = "sellers" -> ""
      [] key = "ip_addr" -> "10.0.0.1"
      [] key = "Zip" -> "94103"
      [] key = "zip" -> "10001"
      [] OTHER -> None

\* key in data
InData(key, keys) == \E i \in 1..Len(keys) : keys[i] = key

\* Entity labels: what nlp(name.lower()).ents yields is the NER model's
\* business, so a call may meet any of these tables.
NoEntities == [n \in Names |-> {}]

PlaceEntities == [n \in Names |-> IF n \in {"ZIP", "ip_addr"} THEN {"GPE"} ELSE {}]

PersonEntities ==
    [n \in Names |-> IF n \in {"Seller's Name", "seller_name", "buyer_name"}
                     THEN {"PERSON"} ELSE {}]

EntTables == {NoEntities, PlaceEntities, PersonEntities}

\* The forms and data dicts fill_form of one.py and two.py is run on.
Scenario(fields, keys) == [fields |-> fields, keys |-> keys]

FormScenarios ==
    { Scenario(<<"Seller's Name", "Buyer's Name">>, <<"seller_name", "buyer_name">>),
      Scenario(<<"Seller's Name">>, <<"sellers", "seller_name">>),
      Scenario(<<"ZIP">>, <<"unrelated_key">>),
      Scenario(<<"ZIP">>, <<>>),
      Scenario(<<>>, <<"seller_name">>) }

\* Generated texts.
ResponseTexts ==
    { <<"{", "Seller's Name", ":", "seller_name", ",", "Buyer's Name", ":", "buyer_name", "}">>,
      <<"FENCE_JSON", "\n", "{", "Seller's Name", ":", "seller_name", "}", "\n", "FENCE">>,
      <<"Here", " ", "you", " ", "go", " ", "{", "Seller's Name", ":", "seller_name", "}", " ", "Done">>,
      <<"I", " ", "cannot", " ", "help">>,
      <<"{", "Invented Field", ":", "seller_name", "}">>,
      <<"{", "Seller's Name", ":", "made_up_key", "}">>,
      <<"{", "ZIP", ":", "null", "}">>,
      <<"{", "Seller's Name", ":", "sellers", "}">>,
      <<"{", "Seller's Name", ":">>,
      <<"null">>,
      <<"[", "seller_name", "]">>,
      <<"42">>,
      <<"seller_name">>,
      <<"{", "}">>,
      <<" ">>,
      EmptyStr }

\* Response bodies met by the client inside fill_form.
OrchBodies ==
    {Candidate("STOP", t) : t \in ResponseTexts}
        \cup {NonJsonBody, NoCandidatesBody, FirstNotObjectBody, SafetyBody}

\* one.py:180-192, the prompt of match_fields_with_gemini.
PromptOne(pdf_fields, keys) ==
    <<"I", "have", "a", "PDF", "form", "with", "the", "following", "fields">>
        \o pdf_fields \o <<"And", "I", "have", "data", "with", "the", "following", "keys">>
        \o keys \o <<"Please", "match", "each", "PDF", "form", "field">>

\* two.py:331-369, the prompt of generate_field_mapping.
PromptTwo(field_names, keys) ==
    <<"Please", "identify", "and", "provide", "the", "following", "information">>
        \o keys \o <<"PDF", "Form", "Fields">> \o field_names

(***************************************************************************)
(* fill_form of one.py (149-177) with match_fields_with_gemini (179-224)   *)
(***************************************************************************)
OrchInit ==
    /\ variant = "none"
    /\ o_pc = "start"
    /\ form_fields = <<>>
    /\ data = <<>>
    /\ ents = NoEntities
    /\ cleaned_response = EmptyStr
    /\ matched_fields = JsonDecodeError
    /\ updates = EmptyDict
    /\ fuzzy_runs = 0
    /\ model_calls = 0
    /\ fill_result = None
    /\ o_exc = ""
    /\ steps = <<>>
    /\ audit = <<>>

\* fill_form returns: the output path, or None.
FillReturns(result, exc, step) ==
    /\ o_pc' = "done"
    /\ fill_result' = result
    /\ o_exc' = exc
    /\ steps' = Append(steps, step)

OutputPath == "filled_form.pdf"

\* A variant that stores the data key instead of its value.
UpdatesOneKeys(m, keys, i, acc) ==
    [j \in 1..Len(m) |-> <<m[j][1], m[j][2]>>]

\* A variant that fills a field whose key is not in the data with a
\* placeholder.
UpdatesOnePlaceholder(m, keys, i, acc) ==
    [j \in 1..Len(m) |->
        <<m[j][1], IF InData(m[j][2], keys) THEN ValueOf(m[j][2]) ELSE "N/A">>]

RECURSIVE UpdatesOne(_, _, _, _)
\* one.py:163-165
UpdatesOne(m, keys, i, acc) ==
    IF i > Len(m) THEN acc
    ELSE LET pdf_field == m[i][1]
             data_key == m[i][2]
         IN IF InData(data_key, keys)
            THEN UpdatesOne(m, keys, i + 1, DictSet(acc, pdf_field, ValueOf(data_key)))
            ELSE UpdatesOne(m, keys, i + 1, acc)

\* one.py:149-161, 179-194: up to the call of call_gemini_api.
FillFormOne ==
    /\ o_pc = "start"
    /\ \E sc \in FormScenarios, has_key \in BOOLEAN :
         /\ variant' = "one"
         /\ form_fields' = sc.fields
         /\ data' = sc.keys
         /\ UNCHANGED <<ents, audit, cleaned_response, matched_fields, updates, fuzzy_runs>>
         /\ IF sc.fields = <<>>
            THEN /\ FillReturns(None, "", "no_fields")
                 /\ UNCHANGED <<cvars, model_calls>>
            ELSE /\ o_pc' = "model"
                 /\ model_calls' = model_calls + 1
                 /\ steps' = Append(steps, "model")
                 /\ UNCHANGED <<fill_result, o_exc>>
                 /\ StartOne(PromptOne(sc.fields, sc.keys), has_key)

\* The client at work inside fill_form.
ModelStep ==
    /\ o_pc = "model"
    /\ ClientStep(OrchBodies)
    /\ UNCHANGED ovars

\* one.py:242-256: the whole body runs inside try ... except Exception, so
\* the call records the text it was given and whether the file was written,
\* and nothing more.
write_response_to_file(response, written) ==
    audit' = Append(audit, [text |-> response, written |-> written])

\* A variant in which a failed write ends the matcher with the error.
AfterModelOneWriteRaises ==
    /\ o_pc = "model" /\ client = "one" /\ c_pc = "done"
    /\ UNCHANGED <<cvars, variant, form_fields, data, ents, matched_fields,
                   updates, fuzzy_runs, model_calls>>
    /\ IF raised # ""
       THEN /\ FillReturns(None, raised, "error")
            /\ UNCHANGED <<cleaned_response, audit>>
       ELSE \E written \in BOOLEAN :
              /\ write_response_to_file(ret, written)
              /\ IF written
                 THEN /\ cleaned_response' = strip_code_blocks(ret)
                      /\ o_pc' = "parse"
                      /\ steps' = Append(steps, "strip")
                      /\ UNCHANGED <<fill_result, o_exc>>
                 ELSE /\ FillReturns(None, "OSError", "error")
                      /\ UNCHANGED cleaned_response

\* one.py:194-200: the client is back; its exception, if any, propagates to
\* the handler of fill_form (175-177).  Otherwise the raw response goes to
\* write_response_to_file (197), which may or may not manage to write, and
\* then to strip_code_blocks (200).
AfterModelOne ==
    /\ o_pc = "model" /\ client = "one" /\ c_pc = "done"
    /\ UNCHANGED <<cvars, variant, form_fields, data, ents, matched_fields,
                   updates, fuzzy_runs, model_calls>>
    /\ IF raised # ""
       THEN /\ FillReturns(None, raised, "error")
            /\ UNCHANGED <<cleaned_response, audit>>
       ELSE /\ \E written \in BOOLEAN : write_response_to_file(ret, written)
            /\ cleaned_response' = strip_code_blocks(ret)
            /\ o_pc' = "parse"
            /\ steps' = Append(steps, "strip")
            /\ UNCHANGED <<fill_result, o_exc>>

\* one.py:203-211: json.loads(cleaned_response).
ParseCleaned ==
    /\ o_pc = "parse"
    /\ LET v == JsonLoads(cleaned_response) IN
         /\ matched_fields' = IF v.ok THEN v ELSE matched_fields
         /\ o_pc' = IF v.ok THEN "fill" ELSE "regex"
    /\ steps' = Append(steps, "parse")
    /\ UNCHANGED <<cvars, variant, form_fields, data, ents, audit, cleaned_response,
                   updates, fuzzy_runs, model_calls, fill_result, o_exc>>

\* A variant that goes on to the fuzzy matcher even when the span decodes.
ParseSpanThenFuzzy ==
    /\ o_pc = "regex"
    /\ LET json_match == BraceSpan(cleaned_response)
           v == JsonLoads(json_match)
       IN /\ matched_fields' = IF json_match # <<>> /\ v.ok THEN v ELSE matched_fields
          /\ o_pc' = "fuzzy"
    /\ steps' = Append(steps, "regex")
    /\ UNCHANGED <<cvars, variant, form_fields, data, ents, audit, cleaned_response,
                   updates, fuzzy_runs, model_calls, fill_result, o_exc>>

\* one.py:213-221: the span from the first to the last brace, decoded.
ParseSpan ==
    /\ o_pc = "regex"
    /\ LET json_match == BraceSpan(cleaned_response)
           v == JsonLoads(json_match)
       IN /\ matched_fields' = IF json_match # <<>> /\ v.ok THEN v ELSE matched_fields
          /\ o_pc' = IF json_match # <<>> /\ v.ok THEN "fill" ELSE "fuzzy"
    /\ steps' = Append(steps, "regex")
    /\ UNCHANGED <<cvars, variant, form_fields, data, ents, audit, cleaned_response,
                   updates, fuzzy_runs, model_calls, fill_result, o_exc>>

\* one.py:223-224: return self.fallback_fuzzy_matching(pdf_fields, data).
FallbackStep ==
    /\ o_pc = "fuzzy"
    /\ fuzzy_runs' = fuzzy_runs + 1
    /\ UNCHANGED <<cvars, variant, form_fields, data, ents, audit, cleaned_response,
                   updates, model_calls>>
    /\ LET r == fallback_fuzzy_matching(form_fields, data) IN
         IF r.exc # ""
         THEN /\ FillReturns(None, r.exc, "fuzzy")
              /\ UNCHANGED matched_fields
         ELSE /\ matched_fields' = JsonValue("object", r.value, Len(r.value))
              /\ o_pc' = "fill"
              /\ steps' = Append(steps, "fuzzy")
              /\ UNCHANGED <<fill_result, o_exc>>

\* one.py:163-177: the updates and the return value.  A decoded value that
\* is no dict has no items(): AttributeError, handled at 175-177.
FillUpdatesOne ==
    /\ o_pc = "fill" /\ variant = "one"
    /\ UNCHANGED <<cvars, variant, form_fields, data, ents, audit, cleaned_response,
                   matched_fields, fuzzy_runs, model_calls>>
    /\ IF ~IsDict(matched_fields)
       THEN /\ FillReturns(None, "AttributeError", "error")
            /\ UNCHANGED updates
       ELSE LET u == UpdatesOne(matched_fields.dict, data, 1, EmptyDict) IN
            /\ updates' = u
            /\ FillReturns(IF u # EmptyDict THEN OutputPath ELSE None, "", "fill")

(***************************************************************************)
(* fill_form of two.py (385-429) with generate_field_mapping (320-383)     *)
(***************************************************************************)
RECURSIVE UpdatesTwo(_, _, _, _)
\* two.py:411-415
UpdatesTwo(m, keys, i, acc) ==
    IF i > Len(m) THEN acc
    ELSE LET pdf_field == m[i][1]
             data_key == m[i][2]
         IN IF InData(data_key, keys) /\ ValueOf(data_key) # ""
            THEN UpdatesTwo(m, keys, i + 1, DictSet(acc, pdf_field, ValueOf(data_key)))
            ELSE UpdatesTwo(m, keys, i + 1, DictSet(acc, pdf_field, None))

\* two.py:385-404, 320-371: up to the call of call_gemini_api.
FillFormTwo ==
    /\ o_pc = "start"
    /\ \E sc \in FormScenarios :
         /\ variant' = "two"
         /\ form_fields' = sc.fields
         /\ data' = sc.keys
         /\ UNCHANGED <<ents, audit, cleaned_response, matched_fields, updates, fuzzy_runs>>
         /\ IF sc.fields = <<>>
            THEN /\ FillReturns(None, "", "no_fields")
                 /\ UNCHANGED <<cvars, model_calls>>
            ELSE /\ o_pc' = "model"
                 /\ model_calls' = model_calls + 1
                 /\ steps' = Append(steps, "model")
                 /\ UNCHANGED <<fill_result, o_exc>>
                 /\ StartTwo(PromptTwo(sc.fields, sc.keys), DefaultRetryCount,
                             DefaultBackoffFactor)

\* two.py:371-383: the mapping generate_field_mapping returns for a text.
generate_field_mapping(mapping_text) ==
    IF mapping_text = EmptyStr THEN JsonEmptyObject
    ELSE LET v == JsonLoads(mapping_text) IN IF v.ok THEN v ELSE JsonEmptyObject

\* two.py:371-383 and 404-407: the client is back; the mapping is decoded
\* and fill_form gives up on a falsy one.
AfterModelTwo ==
    /\ o_pc = "model" /\ client = "two" /\ c_pc = "done"
    /\ UNCHANGED <<cvars, variant, form_fields, data, ents, audit, cleaned_response,
                   updates, fuzzy_runs, model_calls>>
    /\ IF raised # ""
       THEN /\ FillReturns(None, raised, "error")
            /\ UNCHANGED matched_fields
       ELSE LET field_mapping == generate_field_mapping(ret) IN
            /\ matched_fields' = field_mapping
            /\ IF ~Truthy(field_mapping)
               THEN FillReturns(None, "", "no_mapping")
               ELSE /\ o_pc' = "fill"
                    /\ steps' = Append(steps, "parse")
                    /\ UNCHANGED <<fill_result, o_exc>>

\* two.py:409-429: the updates and the return value.
FillUpdatesTwo ==
    /\ o_pc = "fill" /\ variant = "two"
    /\ UNCHANGED <<cvars, variant, form_fields, data, ents, audit, cleaned_response,
                   matched_fields, fuzzy_runs, model_calls>>
    /\ IF ~IsDict(matched_fields)
       THEN /\ FillReturns(None, "AttributeError", "error")
            /\ UNCHANGED updates
       ELSE LET u == UpdatesTwo(matched_fields.dict, data, 1, EmptyDict) IN
            /\ updates' = u
            /\ FillReturns(IF u # EmptyDict THEN OutputPath ELSE None, "", "fill")

(***************************************************************************)
(* The fuzzy matchers on their own                                         *)
(***************************************************************************)
\* fallback_fuzzy_matching(pdf_fields, data) called on any two lists.
CallFallbackFuzzy ==
    /\ o_pc = "start"
    /\ \E pdf_fields \in FieldLists, keys \in KeyLists :
         LET r == fallback_fuzzy_matching(pdf_fields, keys) IN
         /\ variant' = "fallback"
         /\ form_fields' = pdf_fields
         /\ data' = keys
         /\ fuzzy_runs' = fuzzy_runs + 1
         /\ matched_fields' = IF r.exc = "" THEN JsonValue("object", r.value, Len(r.value))
                              ELSE matched_fields
         /\ FillReturns(None, r.exc, "fuzzy")
    /\ UNCHANGED <<cvars, ents, audit, cleaned_response, updates, model_calls>>

RECURSIVE AgentLoop(_, _, _, _, _)
\* important_agent.py:111-116, as <<best matches, updates>>.
AgentLoop(fields, keys, e, i, acc) ==
    IF i > Len(fields) THEN acc
    ELSE LET field_name == fields[i]
             best_match == find_best_match(field_name, keys, e)
         IN AgentLoop(fields, keys, e, i + 1,
                <<DictSet(acc[1], field_name, best_match),
                  IF best_match # None
                  THEN DictSet(acc[2], field_name, ValueOf(best_match))
                  ELSE acc[2]>>)

\* important_agent.py:92-129: fill_form with find_best_match.
FillFormAgent ==
    /\ o_pc = "start"
    /\ \E fields \in {l \in FieldLists : NoDuplicates(l)},
          keys \in {l \in KeyLists : NoDuplicates(l)},
          e \in EntTables :
         LET r == AgentLoop(fields, keys, e, 1, <<EmptyDict, EmptyDict>>) IN
         /\ variant' = "agent"
         /\ form_fields' = fields
         /\ data' = keys
         /\ ents' = e
         /\ IF fields = <<>>
            THEN /\ FillReturns(None, "", "no_fields")
                 /\ UNCHANGED <<matched_fields, updates>>
            ELSE /\ matched_fields' = JsonValue("object", r[1], Len(r[1]))
                 /\ updates' = r[2]
                 /\ FillReturns(IF r[2] # EmptyDict THEN OutputPath ELSE None, "", "fill")
    /\ UNCHANGED <<cvars, audit, cleaned_response, fuzzy_runs, model_calls>>

(***************************************************************************)
(* strip_code_blocks on its own                                            *)
(***************************************************************************)
MaxTextLen == 4

\* The tokens the short texts are made of.
ExtractTokens == {"FENCE_JSON", "FENCE_PYTHON", "FENCE", " ", "\n", "{", "}"}

\* A json fence around {"A":"B"}, each on its own line.
FencedExample == <<"FENCE_JSON", "\n", "{", "A", ":", "B", "}", "\n", "FENCE">>

\* The same object inside a python fence, with prose before it.
PythonFencedExample ==
    <<"Sure", " ", "FENCE_PYTHON", "\n", "{", "A", ":", "B", "}", "\n", "FENCE">>

ExtractTexts ==
    ListsUpTo(ExtractTokens, MaxTextLen) \cup ResponseTexts
        \cup {FencedExample, PythonFencedExample}

\* strip_code_blocks(text) called on any text, as match_fields_with_gemini
\* calls it on the text call_gemini_api returned (one.py:194-200).
CallStripCodeBlocks ==
    /\ o_pc = "start"
    /\ \E text \in ExtractTexts :
         /\ ret' = text
         /\ cleaned_response' = strip_code_blocks(text)
    /\ variant' = "extract"
    /\ o_pc' = "done"
    /\ steps' = Append(steps, "strip")
    /\ UNCHANGED <<client, api_key, c_pc, retry_count, backoff_factor, attempt, prompt, payload,
                   response_bound, sent, slept, outcomes, rewrites, raised>>
    /\ UNCHANGED <<form_fields, data, ents, audit, matched_fields, updates, fuzzy_runs,
                   model_calls, fill_result, o_exc>>

(***************************************************************************)
(* EmailProcessor (one.py:43-113, download.py) and main (one.py:388-442)   *)
(***************************************************************************)
\* base64 text is taken group by group: "QUAD" is a full group of four
\* characters, "PADDED" a final padded group, "JUNK" a character outside
\* the alphabet and "SHORT" an incomplete group.
\* bytes, or no bytes at all (None, or an exception where one is noted).
Bytes(bs) == [some |-> TRUE, bytes |-> bs]

NoBytes == [some |-> FALSE, bytes |-> <<>>]

\* base64.b64decode(s): characters outside the alphabet are discarded, an
\* incomplete group raises binascii.Error, and each group yields its bytes.
b64decode(s) ==
    LET clean == SelectSeq(s, LAMBDA g : g # "JUNK") IN
    IF \E i \in 1..Len(clean) : clean[i] = "SHORT" THEN NoBytes
    ELSE Bytes([i \in 1..Len(clean) |->
                  IF clean[i] = "QUAD" THEN "three bytes" ELSE "one or two bytes"])

\* base64.b64encode(bs).decode()
b64encode(bs) ==
    [i \in 1..Len(bs) |-> IF bs[i] = "three bytes" THEN "QUAD" ELSE "PADDED"]

\* one.py:90-94
is_valid_base64(s) ==
    LET d == b64decode(s) IN
    IF d.some THEN b64encode(d.bytes) = s ELSE FALSE

\* bool(pdf_content)
HasContent(pdf_content) == pdf_content.some /\ pdf_content.bytes # <<>>

\* A part of the payload.  content is '' when the key is absent
\* (part.get('content', '')); link tells whether the part has the key
\* attachmentLink; parts is empty when the part has no parts.
Part(mime, inline, link, name, sub) ==
    [mimeType |-> mime, content |-> inline, attachmentLink |-> link,
     filename |-> name, parts |-> sub]

PdfPart(inline, link, name) == Part("application/pdf", inline, link, name, <<>>)

ValidInline == <<"QUAD", "PADDED">>

PdfPartKinds ==
    { PdfPart(ValidInline, FALSE, "form.pdf"),
      PdfPart(ValidInline, TRUE, "form.pdf"),
      PdfPart(<<>>, TRUE, "linked.pdf"),
      PdfPart(<<"QUAD", "JUNK">>, TRUE, "linked.pdf"),
      PdfPart(<<"SHORT">>, FALSE, "attachment.pdf"),
      PdfPart(<<>>, FALSE, "attachment.pdf") }

\* The PDF parts, a text part that has content and a link, and a part that
\* holds a PDF part of its own.
EmailParts ==
    PdfPartKinds \cup
    { Part("text/plain", ValidInline, TRUE, "note.txt", <<>>),
      Part("multipart/mixed", <<>>, FALSE, "attachment.pdf",
           <<PdfPart(ValidInline, FALSE, "nested.pdf")>>) }

\* payload['parts'] of the emails considered: none, one or two parts.
Payloads ==
    {<<>>} \cup {<<p>> : p \in EmailParts} \cup {<<p, q>> : p \in EmailParts, q \in EmailParts}

\* What requests.get met: content, an empty body, or a RequestException
\* (connection failure or error status).
DownloadOutcomes == {"ok", "empty", "error"}

\* one.py:104-113: response.content, or None after a RequestException.
download_attachment(outcome) ==
    CASE outcome = "ok" -> Bytes(<<"three bytes">>)
      [] outcome = "empty" -> Bytes(<<>>)
      [] OTHER -> NoBytes

RECURSIVE PdfPartsOf(_)
\* The PDF parts in the order extract_attachments visits them (one.py:68-70,
\* 87-88: a part that is no PDF is searched for parts of its own).
PdfPartsOf(ps) ==
    IF ps = <<>> THEN <<>>
    ELSE (IF Head(ps).mimeType = "application/pdf" THEN <<Head(ps)>>
          ELSE PdfPartsOf(Head(ps).parts))
         \o PdfPartsOf(Tail(ps))

\* What extract_attachments has so far: the list self.attachments and the
\* downloads made (part visited, outcome).
Extracted(atts, gets) == [attachments |-> atts, fetched |-> gets]

\* one.py:82-86
Record(acc, part, pdf_content, gets) ==
    Extracted(IF HasContent(pdf_content)
              THEN Append(acc.attachments,
                          [filename |-> part.filename, content |-> pdf_content.bytes])
              ELSE acc.attachments,
              gets)

\* A variant that prefers the link to the inline content.
ExtractPartLinkFirst(acc, part, i, outcome) ==
    IF part.attachmentLink
    THEN Record(acc, part, download_attachment(outcome),
                Append(acc.fetched, [part |-> i, outcome |-> outcome]))
    ELSE IF part.content # <<>> /\ is_valid_base64(part.content)
    THEN Record(acc, part, b64decode(part.content), acc.fetched)
    ELSE acc

\* one.py:70-86: one PDF part, the i-th visited; outcome is what the
\* download meets if there is one.
ExtractPart(acc, part, i, outcome) ==
    IF part.content # <<>> /\ is_valid_base64(part.content)
    THEN Record(acc, part, b64decode(part.content), acc.fetched)
    ELSE IF part.attachmentLink
    THEN Record(acc, part, download_attachment(outcome),
                Append(acc.fetched, [part |-> i, outcome |-> outcome]))
    ELSE Record(acc, part, NoBytes, acc.fetched)

RECURSIVE ExtractLoop(_, _, _, _)
ExtractLoop(pdfs, oracle, i, acc) ==
    IF i > Len(pdfs) THEN acc
    ELSE ExtractLoop(pdfs, oracle, i + 1, ExtractPart(acc, pdfs[i], i, oracle[i]))

\* one.py:67-88: extract_attachments(payload) on a processor that holds acc.
extract_attachments(ps, oracle, acc) ==
    ExtractLoop(PdfPartsOf(ps), oracle, 1, acc)

Oracles(ps) == [1..Len(PdfPartsOf(ps)) -> DownloadOutcomes]

MailInit ==
    /\ e_pc = "start"
    /\ email_parts = <<>>
    /\ attachments = <<>>
    /\ fetched = <<>>
    /\ downloaded_files = <<>>
    /\ filled = <<>>
    /\ replies = <<>>

\* one.py:388-401: the email is loaded (or main returns), the processor is
\* built with attachments = [] (46) and parse_email runs extract_attachments
\* on the payload (53).
MainParseEmail ==
    /\ e_pc = "start"
    /\ \E loaded \in BOOLEAN, ps \in Payloads :
         IF ~loaded
         THEN /\ e_pc' = "done"
              /\ UNCHANGED <<email_parts, attachments, fetched>>
         ELSE \E oracle \in Oracles(ps) :
                LET r == extract_attachments(ps, oracle, Extracted(<<>>, <<>>)) IN
                /\ email_parts' = ps
                /\ attachments' = r.attachments
                /\ fetched' = r.fetched
                /\ e_pc' = "parsed"
    /\ UNCHANGED <<downloaded_files, filled, replies>>

\* one.py:403-419 with download_attachments_from_email (376-386), which runs
\* extract_attachments on the same processor and lists the filenames of
\* self.attachments; main returns when the list is empty or data.json cannot
\* be loaded.
MainDownloadAttachments ==
    /\ e_pc = "parsed"
    /\ \E oracle \in Oracles(email_parts), data_loaded \in BOOLEAN :
         LET r == extract_attachments(email_parts, oracle, Extracted(attachments, fetched))
             names == [i \in 1..Len(r.attachments) |-> r.attachments[i].filename]
         IN /\ attachments' = r.attachments
            /\ fetched' = r.fetched
            /\ downloaded_files' = names
            /\ e_pc' = IF names # <<>> /\ data_loaded THEN "loop" ELSE "done"
    /\ UNCHANGED <<email_parts, filled, replies>>

\* one.py:423-442: one iteration of the loop over downloaded_files; fill_form
\* returns the output path or None, and a reply is sent for a filled form.
MainProcessPdf ==
    /\ e_pc = "loop"
    /\ LET pdf_filename == downloaded_files[Len(filled) + 1] IN
       \E filled_pdf_path \in {OutputPath, None} :
         /\ filled' = Append(filled, pdf_filename)
         /\ replies' = IF filled_pdf_path # None THEN Append(replies, pdf_filename)
                       ELSE replies
         /\ e_pc' = IF Len(filled) + 1 = Len(downloaded_files) THEN "done" ELSE "loop"
    /\ UNCHANGED <<email_parts, attachments, fetched, downloaded_files>>

(***************************************************************************)
(* update_json_with_gemini and call_gemini_api of three.py (329-404)       *)
(***************************************************************************)
\* The form-data file: absent, not JSON, or holding a JSON value.
FileMissing == [state |-> "missing", value |-> JsonDecodeError]

FileCorrupt == [state |-> "corrupt", value |-> JsonDecodeError]

FileHolding(v) == [state |-> "json", value |-> v]

JsonFiles ==
    { FileMissing, FileCorrupt,
      FileHolding(JsonEmptyObject),
      FileHolding(JsonLoads(<<"{", "Seller's Name", ":", "seller_name", "}">>)),
      FileHolding(JsonLoads(<<"{", "ZIP", ":", "null", "}">>)) }

\* What call_gemini_api returned: a str, or the None of a null content.
StrResponse(t) == [isStr |-> TRUE, text |-> t]

NoneResponse == [isStr |-> FALSE, text |-> EmptyStr]

JsonInit ==
    /\ j_pc = "idle"
    /\ json_file = FileMissing
    /\ existing_data = JsonEmptyObject
    /\ j_response = StrResponse(EmptyStr)
    /\ j_writes = <<>>
    /\ j_ret = JsonEmptyObject
    /\ j_raised = ""

\* three.py:371-376: json.load of the file; only FileNotFoundError is
\* handled, by taking {}.
UpdateJsonLoad ==
    /\ j_pc = "idle"
    /\ \E f \in JsonFiles :
         /\ json_file' = f
         /\ IF f.state = "corrupt"
            THEN /\ j_pc' = "done"
                 /\ j_raised' = "JSONDecodeError"
                 /\ UNCHANGED existing_data
            ELSE /\ j_pc' = "model"
                 /\ existing_data' = IF f.state = "missing" THEN JsonEmptyObject ELSE f.value
                 /\ UNCHANGED j_raised
    /\ UNCHANGED <<j_response, j_writes, j_ret>>

\* three.py:329-361, called at 392: a RequestException gives "", a body with
\* the expected structure gives choices[0].message.content (a text, or None
\* when the content is null), and a body without that structure raises a
\* KeyError, IndexError or TypeError that nothing catches.
CallGeminiThree ==
    /\ j_pc = "model"
    /\ \/ /\ \E r \in {StrResponse(t) : t \in ResponseTexts} \cup {NoneResponse} :
               j_response' = r
          /\ j_pc' = "parse"
          /\ UNCHANGED j_raised
       \/ /\ j_pc' = "done"
          /\ j_raised' = "LookupError"
          /\ UNCHANGED j_response
    /\ UNCHANGED <<json_file, existing_data, j_writes, j_ret>>

\* three.py:394-404: json.loads(response); the file is opened for writing
\* and dumped to only after that.  json.loads(None) raises TypeError, which
\* the handler of JSONDecodeError does not catch.
UpdateJsonSave ==
    /\ j_pc = "parse"
    /\ j_pc' = "done"
    /\ IF ~j_response.isStr
       THEN /\ j_raised' = "TypeError"
            /\ UNCHANGED <<json_file, j_writes, j_ret>>
       ELSE LET updated_data == JsonLoads(j_response.text) IN
            IF updated_data.ok
            THEN /\ json_file' = FileHolding(updated_data)
                 /\ j_writes' = Append(j_writes, updated_data)
                 /\ j_ret' = updated_data
                 /\ UNCHANGED j_raised
            ELSE /\ j_ret' = existing_data
                 /\ UNCHANGED <<json_file, j_writes, j_raised>>
    /\ UNCHANGED <<existing_data, j_response>>

(***************************************************************************)
(* Specifications                                                          *)
(***************************************************************************)
Init == ClientInit /\ OrchInit /\ MailInit /\ JsonInit

\* The clients called directly.
ClientNext ==
    \/ CallGeminiApi /\ UNCHANGED <<ovars, mvars, jvars>>
    \/ CallGeminiApiOne /\ UNCHANGED <<ovars, mvars, jvars>>
    \/ ClientStep(ClientBodies) /\ UNCHANGED <<ovars, mvars, jvars>>

SpecClient == Init /\ [][ClientNext]_vars

\* The fuzzy matchers called directly.
FuzzyNext ==
    \/ CallFallbackFuzzy /\ UNCHANGED <<mvars, jvars>>
    \/ FillFormAgent /\ UNCHANGED <<mvars, jvars>>

SpecFuzzy == Init /\ [][FuzzyNext]_vars

\* strip_code_blocks called directly.
ExtractNext == CallStripCodeBlocks /\ UNCHANGED <<mvars, jvars>>

SpecExtract == Init /\ [][ExtractNext]_vars

\* main of one.py: the email, its attachments, the forms and the replies.
MailNext ==
    \/ MainParseEmail /\ UNCHANGED <<cvars, ovars, jvars>>
    \/ MainDownloadAttachments /\ UNCHANGED <<cvars, ovars, jvars>>
    \/ MainProcessPdf /\ UNCHANGED <<cvars, ovars, jvars>>

SpecMail == Init /\ [][MailNext]_vars

\* update_json_with_gemini of three.py.
JsonNext ==
    \/ UpdateJsonLoad /\ UNCHANGED <<cvars, ovars, mvars>>
    \/ CallGeminiThree /\ UNCHANGED <<cvars, ovars, mvars>>
    \/ UpdateJsonSave /\ UNCHANGED <<cvars, ovars, mvars>>

SpecJson == Init /\ [][JsonNext]_vars

\* fill_form of one.py and of two.py.
Next ==
    \/ FillFormOne /\ UNCHANGED <<mvars, jvars>>
    \/ FillFormTwo /\ UNCHANGED <<mvars, jvars>>
    \/ ModelStep /\ UNCHANGED <<mvars, jvars>>
    \/ AfterModelOne /\ UNCHANGED <<mvars, jvars>>
    \/ ParseCleaned /\ UNCHANGED <<mvars, jvars>>
    \/ ParseSpan /\ UNCHANGED <<mvars, jvars>>
    \/ FallbackStep /\ UNCHANGED <<mvars, jvars>>
    \/ FillUpdatesOne /\ UNCHANGED <<mvars, jvars>>
    \/ AfterModelTwo /\ UNCHANGED <<mvars, jvars>>
    \/ FillUpdatesTwo /\ UNCHANGED <<mvars, jvars>>

Spec == Init /\ [][Next]_vars

(***************************************************************************)
(* Claims about call_gemini_api of two.py, under SpecClient                *)
(***************************************************************************)
TransportKinds == {"timeout", "http_error"}

\* Kinds of a 2xx response whose body is not the expected shape.
StructuralKinds == {"not_json", "no_candidates", "no_parts", "no_text", "exception"}

AllOutcomesIn(kinds) == \A i \in 1..Len(outcomes) : outcomes[i].kind \in kinds

CountKinds(kinds) == Cardinality({i \in 1..Len(outcomes) : outcomes[i].kind \in kinds})

LastKind == IF outcomes = <<>> THEN "none" ELSE outcomes[Len(outcomes)].kind

\* C1: with retry_count = n >= 1 and every attempt failing with a timeout,
\* transport error or HTTP error status, the call issues one request per
\* iteration without returning early, and once it has returned it has issued
\* exactly n requests, returned the empty string and raised nothing.
C1_AllTransportFailures ==
    (client = "two" /\ retry_count >= 1 /\ AllOutcomesIn(TransportKinds)) =>
        /\ raised = ""
        /\ c_pc = "loop" => Len(sent) = attempt /\ attempt <= retry_count
        /\ c_pc = "done" => Len(sent) = retry_count /\ ret = EmptyStr

C1_Witness ==
    /\ client = "two" /\ c_pc = "done" /\ retry_count = 3
    /\ Len(outcomes) = 3 /\ AllOutcomesIn({"timeout"})
    /\ Len(sent) = 3 /\ ret = EmptyStr

\* C2: call_gemini_api never raises to its caller.
C2_NeverRaises == raised = ""

\* C3: with retry_count >= 2, a safety-blocked first response followed by a
\* normal candidate with text returns the second response's text, and the
\* prompt sent in attempt 2 differs from the prompt sent in attempt 1.
C3_SafetyThenNormal ==
    (/\ client = "two" /\ retry_count >= 2 /\ Len(outcomes) = 2
     /\ outcomes[1].kind = "safety" /\ outcomes[2].kind = "ok") =>
        /\ c_pc = "done" /\ raised = ""
        /\ ret = outcomes[2].text
        /\ sent[2] # sent[1]

\* C4: a structurally wrong 2xx response is never retried: no request follows
\* it, and the call returns the empty string.
C4_StructuralNotRetried ==
    client = "two" =>
        \A i \in 1..Len(outcomes) :
            outcomes[i].kind \in StructuralKinds =>
                /\ Len(sent) = i
                /\ c_pc = "done" => ret = EmptyStr /\ raised = ""

\* C5 as stated: the two retry budgets are separate, so the call gives up
\* after a safety block only when retry_count safety blocks have occurred,
\* and gives up after a transport failure only when retry_count transport
\* failures have occurred.
C5_SeparateBudgets ==
    (client = "two" /\ retry_count >= 1 /\ AllOutcomesIn(TransportKinds \cup {"safety"})) =>
        /\ (c_pc = "done" /\ LastKind = "safety") => CountKinds({"safety"}) = retry_count
        /\ (c_pc = "done" /\ LastKind \in TransportKinds) => CountKinds(TransportKinds) = retry_count

\* C5 amended: one budget.  Every loop iteration, whatever its failure, uses
\* one of the retry_count attempts: the call gives up after a safety block or
\* a transport failure exactly when the failures of both kinds together
\* number retry_count, and before that it keeps retrying.
C5_SharedBudget ==
    (client = "two" /\ retry_count >= 1 /\ AllOutcomesIn(TransportKinds \cup {"safety"})) =>
        /\ CountKinds({"safety"}) + CountKinds(TransportKinds) <= retry_count
        /\ Len(outcomes) < retry_count => c_pc = "loop"
        /\ c_pc = "done" =>
              /\ CountKinds({"safety"}) + CountKinds(TransportKinds) = retry_count
              /\ ret = EmptyStr

\* A transport failure used up the attempt a safety retry would have needed.
C5_Witness ==
    /\ client = "two" /\ c_pc = "done" /\ retry_count = 2
    /\ Len(outcomes) = 2
    /\ outcomes[1].kind = "timeout" /\ outcomes[2].kind = "safety"
    /\ ret = EmptyStr

\* C6: with retry_count = n >= 1 and every response safety-blocked, the call
\* makes exactly n requests, rewrites the prompt before each of the n-1
\* retries, and returns the empty string right after the n-th block (no
\* further sleep).
C6_AllSafetyBlocked ==
    (client = "two" /\ retry_count >= 1 /\ outcomes # <<>> /\ AllOutcomesIn({"safety"})) =>
        /\ raised = ""
        /\ \A i \in 1..(Len(sent) - 1) : sent[i + 1] = modify_prompt_for_safety(sent[i])
        /\ c_pc = "loop" =>
              /\ attempt < retry_count
              /\ Len(sent) = attempt /\ rewrites = attempt /\ Len(slept) = attempt
        /\ c_pc = "done" =>
              /\ Len(sent) = retry_count
              /\ rewrites = retry_count - 1
              /\ Len(slept) = retry_count - 1
              /\ ret = EmptyStr

C6_Witness ==
    /\ client = "two" /\ c_pc = "done" /\ retry_count = 3
    /\ Len(outcomes) = 3 /\ AllOutcomesIn({"safety"})
    /\ rewrites = 2 /\ sent[2] # sent[1]

(***************************************************************************)
(* Claims about fill_form and the matchers                                 *)
(***************************************************************************)
\* The elements of a list.
Range(l) == {l[i] : i \in 1..Len(l)}

\* The value the model-assisted matcher decoded from the client's text, or
\* JsonDecodeError when neither decoding succeeded.
DecodedByModel ==
    IF variant = "two" THEN JsonLoads(ret)
    ELSE LET cleaned == strip_code_blocks(ret)
             direct == JsonLoads(cleaned)
             span == BraceSpan(cleaned)
         IN IF direct.ok THEN direct
            ELSE IF span # <<>> THEN JsonLoads(span)
            ELSE JsonDecodeError

\* The model-assisted strategy failed: the client returned the empty string
\* or its text does not decode to a mapping.
ModelStrategyFailed ==
    /\ variant \in {"one", "two"} /\ model_calls = 1
    /\ c_pc = "done" /\ raised = ""
    /\ (ret = EmptyStr \/ ~IsDict(DecodedByModel))

\* C7: whenever the model-assisted strategy has failed for a form, the fuzzy
\* matcher has been run exactly once by the time fill_form is done, and the
\* model has been called once only.
C7_FallbackRunsOnce ==
    (o_pc = "done" /\ ModelStrategyFailed) => (fuzzy_runs = 1 /\ model_calls = 1)

\* C8: every key of updates in fill_form is one of the form's field names.
C8_UpdateKeysAreFormFields ==
    DictKeys(updates) \subseteq Range(form_fields)

\* C9: every non-null entry the fuzzy matcher returns scores strictly above
\* the threshold (70 for fallback_fuzzy_matching, 40 for find_best_match), and
\* a field mapped to None has no key scoring above the threshold.
C9_EntriesAboveThreshold ==
    LET m == matched_fields.dict IN
    /\ (variant = "fallback" /\ o_pc = "done" /\ o_exc = "") =>
         \A i \in 1..Len(m) :
            IF m[i][2] # None
            THEN ScoreAbove(FuzzRatio(m[i][1], m[i][2]), FallbackThreshold)
            ELSE \A k \in Range(data) :
                    ~ScoreAbove(FuzzRatio(m[i][1], k), FallbackThreshold)
    /\ (variant = "agent" /\ o_pc = "done" /\ form_fields # <<>>) =>
         \A i \in 1..Len(m) :
            IF m[i][2] # None
            THEN ScoreAbove(PairScore(m[i][1], m[i][2], ents), BestMatchThreshold)
            ELSE \A k \in Range(data) :
                    ~ScoreAbove(PairScore(m[i][1], k, ents), BestMatchThreshold)

\* fallback_fuzzy_matching has returned one entry above the threshold and
\* one None for a field whose best key scores exactly 70.
C9_Witness ==
    /\ variant = "fallback" /\ o_pc = "done" /\ o_exc = ""
    /\ form_fields = <<"Seller's Name", "ZIP">>
    /\ data = <<"sellers", "Zip">>
    /\ FuzzRatio("Seller's Name", "sellers") = Score(1400, 20)
    /\ matched_fields.dict = << <<"Seller's Name", None>>, <<"ZIP", "Zip">> >>

\* C10: for every field list and every data-key list, the empty one
\* included, fallback_fuzzy_matching returns without raising a mapping whose
\* domain is the given field names, each mapped to a given data key or None.
C10_FallbackTotal ==
    (variant = "fallback" /\ o_pc = "done") =>
        /\ o_exc = ""
        /\ DictKeys(matched_fields.dict) = Range(form_fields)
        /\ \A i \in 1..Len(matched_fields.dict) :
              matched_fields.dict[i][2] \in Range(data) \cup {None}

\* C11: for every response text and every non-empty data-key list,
\* match_fields_with_gemini raises nothing and what it returns to fill_form
\* is a mapping (a dict).
C11_MatcherReturnsMapping ==
    (variant = "one" /\ raised = "" /\ data # <<>>) =>
        /\ o_exc # "ValueError"
        /\ o_pc = "fill" => IsDict(matched_fields)

\* The text the client returned decodes neither as it is after
\* strip_code_blocks nor as its span from the first to the last brace.
Unparsable(t) ==
    LET cleaned == strip_code_blocks(t)
        span == BraceSpan(cleaned)
    IN /\ ~JsonLoads(cleaned).ok
       /\ (span = <<>> \/ ~JsonLoads(span).ok)

\* match_fields_with_gemini of one.py has returned normally.
MatcherReturnedOne ==
    variant = "one" /\ raised = "" /\ model_calls = 1 /\ c_pc = "done"
        /\ (o_pc = "fill" \/ (o_pc = "done" /\ o_exc \in {"", "AttributeError"}))

\* C12: when the model's output is unparsable, match_fields_with_gemini
\* returns what one run of the fuzzy matcher gives, and that mapping has a
\* non-null entry for every field with a data key scoring above 70.
C12_UnparsableFallsBack ==
    (MatcherReturnedOne /\ Unparsable(ret)) =>
        /\ fuzzy_runs = 1
        /\ IsDict(matched_fields)
        /\ \A f \in Range(form_fields) :
              (\E k \in Range(data) : ScoreAbove(FuzzRatio(f, k), FallbackThreshold))
                  => /\ DictHas(matched_fields.dict, f)
                     /\ DictGet(matched_fields.dict, f) \in Range(data)

\* Prose came back, the fuzzy matcher ran, and of the two keys the second
\* is the one scoring above 70.
C12_Witness ==
    /\ MatcherReturnedOne /\ o_pc = "fill"
    /\ ret = <<"I", " ", "cannot", " ", "help">>
    /\ Unparsable(ret)
    /\ form_fields = <<"Seller's Name">>
    /\ data = <<"sellers", "seller_name">>
    /\ matched_fields.dict = << <<"Seller's Name", "seller_name">> >>

(***************************************************************************)
(* Claims about strip_code_blocks                                          *)
(***************************************************************************)
\* C13: strip_code_blocks is idempotent: applied to its own result it
\* returns that result (checked for every text, whatever its number of
\* fenced blocks).
C13_StripIdempotent ==
    (variant = "extract" /\ o_pc = "done") =>
        strip_code_blocks(cleaned_response) = cleaned_response

\* A text with one fenced block, from which the fences and the newlines
\* next to them were removed.
C13_Witness ==
    /\ variant = "extract" /\ o_pc = "done"
    /\ ret = FencedExample
    /\ cleaned_response = <<"{", "A", ":", "B", "}">>
    /\ strip_code_blocks(cleaned_response) = cleaned_response

\* Fences that carry a language tag.
TaggedFences == {"FENCE_JSON", "FENCE_PYTHON"}

\* C14: for a text with a block opened by a language-tagged fence and closed
\* by a fence, strip_code_blocks returns the trimmed interior of the first
\* such block; for any other text, the trimmed text.
C14_InteriorOfTaggedBlock ==
    (variant = "extract" /\ o_pc = "done") =>
        LET opens == {i \in 1..Len(ret) :
                         /\ ret[i] \in TaggedFences
                         /\ \E j \in (i + 1)..Len(ret) : ret[j] \in FenceTokens}
        IN cleaned_response =
              IF opens = {} THEN Strip(ret)
              ELSE LET i == SetMin(opens)
                       j == SetMin({k \in (i + 1)..Len(ret) : ret[k] \in FenceTokens})
                   IN Strip(SubSeq(ret, i + 1, j - 1))

(***************************************************************************)
(* Claims about the order of the matcher's steps and the end-to-end result *)
(***************************************************************************)
\* The parse steps of match_fields_with_gemini, in the order of the claim.
StepRank(s) ==
    CASE s = "parse" -> 1
      [] s = "regex" -> 2
      [] s = "fuzzy" -> 3
      [] OTHER -> 0

StepCount(s) == Cardinality({i \in 1..Len(steps) : steps[i] = s})

\* C15: match_fields_with_gemini decodes the fence-stripped text first; only
\* if that fails it decodes the span from the first to the last brace; only
\* if that fails too, or there is no span, it runs the fuzzy matcher.  Each
\* step runs at most once, in this order, and a later step never runs after
\* an earlier one succeeded.
C15_ParseOrder ==
    variant = "one" =>
        LET direct == JsonLoads(cleaned_response)
            span == BraceSpan(cleaned_response)
            spanFails == span = <<>> \/ ~JsonLoads(span).ok
        IN /\ \A s \in {"parse", "regex", "fuzzy"} : StepCount(s) <= 1
           /\ \A i, j \in 1..Len(steps) :
                 (i < j /\ StepRank(steps[i]) > 0 /\ StepRank(steps[j]) > 0)
                     => StepRank(steps[i]) < StepRank(steps[j])
           /\ fuzzy_runs = StepCount("fuzzy")
           /\ StepCount("regex") = 1 => (StepCount("parse") = 1 /\ ~direct.ok)
           /\ StepCount("fuzzy") = 1 => (StepCount("regex") = 1 /\ spanFails)
           /\ (o_pc \in {"fill", "done"} /\ StepCount("parse") = 1 /\ ~direct.ok)
                 => StepCount("regex") = 1
           /\ (o_pc \in {"fill", "done"} /\ StepCount("regex") = 1 /\ spanFails)
                 => StepCount("fuzzy") = 1
           /\ (o_pc = "fill" /\ direct.ok) => matched_fields = direct
           /\ (o_pc = "fill" /\ ~direct.ok /\ ~spanFails) => matched_fields = JsonLoads(span)

\* The direct decoding failed on prose around an object, the span decoded,
\* and the fuzzy matcher was not run.
C15_Witness ==
    /\ variant = "one" /\ o_pc = "done"
    /\ steps = <<"model", "strip", "parse", "regex", "fill">>
    /\ ~JsonLoads(cleaned_response).ok
    /\ JsonLoads(BraceSpan(cleaned_response)).ok
    /\ fuzzy_runs = 0

\* fill_form of one.py is done and all its model call gave was the empty
\* string.
DoneWithEmptyResponseOne ==
    /\ variant = "one" /\ o_pc = "done" /\ model_calls = 1
    /\ c_pc = "done" /\ raised = "" /\ ret = EmptyStr

\* C16: with an empty model response, fill_form fills each field with the
\* value of a best-scoring data key when that score exceeds 70 and leaves
\* the other fields out; for the fields Seller's Name, Buyer's Name and the
\* data seller_name: John Doe, buyer_name: Jane Smith the updates are
\* Seller's Name: John Doe, Buyer's Name: Jane Smith.
C16_EmptyResponseEndToEnd ==
    DoneWithEmptyResponseOne =>
        /\ \A f \in Range(form_fields) :
              IF \E k \in Range(data) : ScoreAbove(FuzzRatio(f, k), FallbackThreshold)
              THEN /\ DictHas(updates, f)
                   /\ \E k \in Range(data) :
                         /\ DictGet(updates, f) = ValueOf(k)
                         /\ \A k2 \in Range(data) :
                               ~ScoreGt(FuzzRatio(f, k2), FuzzRatio(f, k))
              ELSE ~DictHas(updates, f)
        /\ (form_fields = <<"Seller's Name", "Buyer's Name">>
                /\ data = <<"seller_name", "buyer_name">>)
              => /\ updates = << <<"Seller's Name", "John Doe">>,
                                 <<"Buyer's Name", "Jane Smith">> >>
                 /\ fill_result = OutputPath

C16_Witness ==
    /\ DoneWithEmptyResponseOne
    /\ form_fields = <<"Seller's Name", "Buyer's Name">>
    /\ data = <<"seller_name", "buyer_name">>
    /\ fuzzy_runs = 1
    /\ updates = << <<"Seller's Name", "John Doe">>, <<"Buyer's Name", "Jane Smith">> >>

\* C17: when fill_form has finished without an error, every field of the
\* form is a key of the final field -> value mapping, with the value of a
\* data key or with None; for the field ZIP and the data unrelated_key: xyz
\* the mapping has the entry ZIP: None.
C17_UnmatchedFieldsAreNull ==
    (variant \in {"one", "two"} /\ o_pc = "done" /\ model_calls = 1
        /\ raised = "" /\ o_exc = "") =>
        /\ \A f \in Range(form_fields) :
              /\ DictHas(updates, f)
              /\ \/ DictGet(updates, f) = None
                 \/ \E k \in Range(data) : DictGet(updates, f) = ValueOf(k)
        /\ (form_fields = <<"ZIP">> /\ data = <<"unrelated_key">>)
              => updates = << <<"ZIP", None>> >>

(***************************************************************************)
(* Claims about the entity-boosted score                                   *)
(***************************************************************************)
\* C18: in find_best_match the score of a field/key pair is the base
\* token-sort ratio plus exactly 10 when the entity-label sets of the two
\* names share a label, and the base ratio itself when they are disjoint;
\* every score lies in 0..110.
C18_BoostIsTen ==
    (variant = "agent" /\ o_pc = "done") =>
        \A f \in Range(form_fields), k \in Range(data) :
            LET score == PairScore(f, k, ents)
                base == TokenSortRatioTable[<<f, k>>]
            IN /\ base.den > 0 /\ score.den > 0
               /\ 0 <= base.num /\ base.num <= 100 * base.den
               /\ IF ents[f] \cap ents[k] # {}
                  THEN score.num * base.den = (base.num + 10 * base.den) * score.den
                  ELSE score.num * base.den = base.num * score.den
               /\ 0 <= score.num /\ score.num <= 110 * score.den

\* ZIP and ip_addr share the label GPE: the base ratio 40 becomes 50 and the
\* key is accepted.
C18_Witness ==
    /\ variant = "agent" /\ o_pc = "done"
    /\ ents = PlaceEntities
    /\ form_fields = <<"ZIP">>
    /\ data = <<"ip_addr">>
    /\ TokenSortRatioTable[<<"ZIP", "ip_addr">>] = Score(400, 10)
    /\ matched_fields.dict = << <<"ZIP", "ip_addr">> >>
    /\ updates = << <<"ZIP", "10.0.0.1">> >>

(***************************************************************************)
(* Claims about the waits and the prompts of call_gemini_api               *)
(***************************************************************************)
RECURSIVE SumSeq(_)
SumSeq(l) == IF l = <<>> THEN 0 ELSE Head(l) + SumSeq(Tail(l))

RECURSIVE Power(_, _)
Power(b, e) == IF e = 0 THEN 1 ELSE b * Power(b, e - 1)

\* C19: the wait after the failed attempt with 0-based index i is
\* backoff_factor ** i, and when all retry_count attempts fail with a
\* transport or HTTP error the total slept is the sum of backoff_factor ** i
\* for i in 0..retry_count-1.
C19_BackoffWaits ==
    client = "two" =>
        /\ \A i \in 1..Len(slept) : slept[i] = Power(backoff_factor, i - 1)
        /\ \A i \in 1..Len(outcomes) :
              outcomes[i].kind \in TransportKinds => Len(slept) >= i
        /\ (c_pc = "done" /\ raised = "" /\ AllOutcomesIn(TransportKinds)) =>
              /\ Len(slept) = retry_count
              /\ SumSeq(slept) = SumSeq([i \in 1..retry_count |-> Power(backoff_factor, i - 1)])

\* Three attempts with backoff_factor 3 all failed: 1 + 3 + 9 seconds slept.
C19_Witness ==
    /\ client = "two" /\ c_pc = "done" /\ raised = ""
    /\ retry_count = 3 /\ backoff_factor = 3
    /\ Len(outcomes) = 3 /\ AllOutcomesIn(TransportKinds)
    /\ slept = <<1, 3, 9>>

\* C20: a retry that follows a transport or HTTP failure sends the prompt of
\* the failed attempt unchanged; the prompt sent differs from the previous
\* one only after a safety-blocked attempt.
C20_PromptChangesOnlyAfterSafety ==
    client = "two" =>
        \A i \in 1..(Len(sent) - 1) :
            /\ outcomes[i].kind \in TransportKinds => sent[i + 1] = sent[i]
            /\ sent[i + 1] # sent[i] => outcomes[i].kind = "safety"

\* A timeout was retried with the same prompt, the retry was safety-blocked,
\* and the third request carried a rewritten prompt.
C20_Witness ==
    /\ client = "two" /\ Len(sent) = 3 /\ Len(outcomes) >= 2
    /\ outcomes[1].kind = "timeout" /\ outcomes[2].kind = "safety"
    /\ sent[2] = sent[1]
    /\ sent[3] # sent[2]

\* What match_fields_with_gemini of one.py yields for a response, as a
\* function of the response, the form fields and the data keys alone.
MatcherOne(response, fields, keys) ==
    LET cleaned == strip_code_blocks(response)
        v == JsonLoads(cleaned)
        json_match == BraceSpan(cleaned)
        w == JsonLoads(json_match)
        r == fallback_fuzzy_matching(fields, keys)
    IN IF v.ok THEN [exc |-> "", value |-> v]
       ELSE IF json_match # <<>> /\ w.ok THEN [exc |-> "", value |-> w]
       ELSE IF r.exc # "" THEN [exc |-> r.exc, value |-> None]
       ELSE [exc |-> "", value |-> JsonValue("object", r.value, Len(r.value))]

\* C21: a failure to write the raw model response to the audit file is never
\* propagated.  In fill_form of one.py the audit write happens exactly when
\* the model call returned, it is followed by the stripping of the response
\* whether or not it wrote, it is handed the unmodified response, it comes
\* before any parsing, and the mapping (or the error) the matcher ends with
\* is the one determined by the response, the form fields and the data keys,
\* whatever the outcome of the write.
C21_AuditWriteNeverPropagates ==
    variant = "one" =>
        /\ Len(audit) <= 1
        /\ (audit # <<>>) <=> ("strip" \in Range(steps))
        /\ ("parse" \in Range(steps)) => audit # <<>>
        /\ audit # <<>> =>
             /\ audit[1].text = ret
             /\ o_pc = "fill" => matched_fields = MatcherOne(ret, form_fields, data).value
             /\ o_pc = "done" =>
                  LET m == MatcherOne(ret, form_fields, data) IN
                    IF m.exc # "" THEN o_exc = m.exc /\ fill_result = None
                    ELSE IF ~IsDict(m.value) THEN o_exc = "AttributeError"
                    ELSE o_exc = "" /\ matched_fields = m.value

\* The audit write failed and the form was filled all the same.
C21_Witness ==
    /\ variant = "one" /\ o_pc = "done"
    /\ audit # <<>> /\ ~audit[1].written
    /\ ret # <<>>
    /\ fill_result = OutputPath

\* The list in the opposite order.
Reverse(s) == [i \in 1..Len(s) |-> s[Len(s) + 1 - i]]

\* C22: the data key the fuzzy matcher chooses for a field does not depend on
\* the order in which the keys of the data record are enumerated, ties for
\* the maximum score included: fallback_fuzzy_matching and find_best_match
\* give every field the same key when the keys come in the opposite order.
C22_KeyOrderIrrelevant ==
    /\ (variant = "fallback" /\ o_pc = "done" /\ o_exc = "") =>
          fallback_fuzzy_matching(form_fields, Reverse(data)).value = matched_fields.dict
    /\ (variant = "agent" /\ o_pc = "done") =>
          \A i \in 1..Len(form_fields) :
             find_best_match(form_fields[i], Reverse(data), ents)
                = find_best_match(form_fields[i], data, ents)

\* The failures the retry loop of two.py is built for.
RetriedKinds == TransportKinds \cup {"safety"}

\* C23: for any retry_count >= 0 and any interleaving of transport failures,
\* HTTP errors and safety blocks, call_gemini_api of two.py issues at most
\* retry_count requests, one per loop iteration, and then returns the empty
\* string without raising; with retry_count = 0 it issues no request.
C23_AtMostRetryCountRequests ==
    client = "two" =>
        /\ Len(sent) <= retry_count
        /\ retry_count = 0 => sent = <<>> /\ raised = "" /\ ret = EmptyStr
        /\ AllOutcomesIn(RetriedKinds) =>
             /\ raised = ""
             /\ Len(outcomes) = Len(sent)
             /\ c_pc = "loop" => attempt = Len(sent)
             /\ c_pc = "done" => ret = EmptyStr /\ Len(outcomes) = retry_count

\* A timeout, an HTTP error and a safety block, in some order, used up a
\* budget of three and the call returned.
C23_Witness ==
    /\ client = "two" /\ c_pc = "done" /\ retry_count = 3
    /\ Len(sent) = 3
    /\ {outcomes[i].kind : i \in 1..Len(outcomes)} = {"timeout", "http_error", "safety"}
    /\ ret = EmptyStr /\ raised = ""

\* C24: in call_gemini_api of two.py every backoff sleep is followed by
\* another request: the requests outnumber the sleeps once the call has
\* returned, and a call whose last permitted attempt failed (transport or
\* HTTP error, or safety block) returns the empty string without a sleep
\* after that attempt.
C24_NoSleepAfterLastAttempt ==
    (client = "two" /\ c_pc = "done" /\ raised = "" /\ AllOutcomesIn(RetriedKinds)) =>
        /\ ret = EmptyStr
        /\ sent # <<>> => Len(slept) < Len(sent)

\* C25: modify_prompt_for_safety is idempotent: rewriting the prompt of a
\* call a second time changes nothing, so a request that follows a second or
\* later safety block carries the same prompt as the request before it.
C25_RewriteIdempotent ==
    client = "two" =>
        /\ modify_prompt_for_safety(modify_prompt_for_safety(prompt))
              = modify_prompt_for_safety(prompt)
        /\ \A i \in 2..(Len(sent) - 1) :
              (outcomes[i].kind = "safety" /\ \E j \in 1..(i - 1) : outcomes[j].kind = "safety")
                  => sent[i + 1] = sent[i]

\* C29: call_gemini_api of one.py issues at most one request per call, and
\* when GEMINI_API_KEY is not set it issues none and returns the empty string.
C29_OneRequestAtMost ==
    client = "one" =>
        /\ Len(sent) <= 1
        /\ c_pc = "loop" => sent = <<>> /\ api_key
        /\ ~api_key => /\ c_pc = "done"
                       /\ sent = <<>>
                       /\ ret = EmptyStr
                       /\ raised = ""

\* The call without the key has returned.
C29_Witness ==
    client = "one" /\ ~api_key /\ c_pc = "done" /\ sent = <<>> /\ ret = EmptyStr

\* fill_form has computed its updates from the matcher's mapping.
UpdatesComputed ==
    /\ o_pc = "done" /\ o_exc = "" /\ IsDict(matched_fields)
    /\ steps # <<>> /\ steps[Len(steps)] = "fill"

\* C27: every value fill_form writes into updates is the data record's value
\* for the data key the matcher assigned to that field, and a field whose
\* assigned key is null or is no key of the data record gets no invented
\* value: fill_form of one.py and of important_agent.py leave it out, and
\* fill_form of two.py writes None for it.
C27_ValuesFromAssignedKeys ==
    UpdatesComputed =>
        LET m == matched_fields.dict IN
        /\ DictKeys(updates) \subseteq DictKeys(m)
        /\ \A i \in 1..Len(m) :
              LET f == m[i][1]
                  k == m[i][2]
              IN IF InData(k, data)
                 THEN /\ DictHas(updates, f)
                      /\ DictGet(updates, f) \in {ValueOf(k), None}
                      /\ variant \in {"one", "agent"} => DictGet(updates, f) = ValueOf(k)
                 ELSE IF variant = "two"
                      THEN DictHas(updates, f) /\ DictGet(updates, f) = None
                      ELSE ~DictHas(updates, f)

\* The model assigned one field a key of the data and another field a key
\* the data does not have (or null); only the first field was filled.
C27_Witness ==
    /\ UpdatesComputed /\ variant = "one"
    /\ \E i \in 1..Len(matched_fields.dict) :
          /\ InData(matched_fields.dict[i][2], data)
          /\ DictGet(updates, matched_fields.dict[i][1]) = ValueOf(matched_fields.dict[i][2])
    /\ \E i \in 1..Len(matched_fields.dict) :
          /\ ~InData(matched_fields.dict[i][2], data)
          /\ ~DictHas(updates, matched_fields.dict[i][1])

(***************************************************************************)
(* Claims about the email, its attachments and the stored form data        *)
(***************************************************************************)
\* C26: in one run of main each PDF attachment of the payload is recorded
\* once in EmailProcessor.attachments, and each attached form is filled and
\* answered once: there are never more attachments, fill_form calls or
\* replies than the payload has PDF parts.
C26_EachAttachmentOnce ==
    LET n == Len(PdfPartsOf(email_parts)) IN
    /\ Len(attachments) <= n
    /\ Len(filled) <= n
    /\ Len(replies) <= n

\* update_json_with_gemini got a response from call_gemini_api and is done.
ResponseHandled ==
    j_pc = "done" /\ j_raised \notin {"JSONDecodeError", "LookupError"}

\* C28: update_json_with_gemini leaves the stored form data untouched on
\* failure: when the model response is not parseable JSON the file is not
\* written and the previously loaded data is returned, and the file is
\* written only with a successfully parsed response.
C28_FileUntouchedOnFailure ==
    /\ \A i \in 1..Len(j_writes) : j_writes[i].ok
    /\ ResponseHandled =>
         IF j_response.isStr /\ JsonLoads(j_response.text).ok
         THEN /\ j_writes = <<JsonLoads(j_response.text)>>
              /\ json_file = FileHolding(JsonLoads(j_response.text))
              /\ j_ret = JsonLoads(j_response.text)
         ELSE /\ j_writes = <<>>
              /\ j_ret = existing_data
              /\ j_raised = ""

\* C30: extract_attachments records a PDF part only when non-empty content
\* was obtained for it.  After parse_email the attachments are, in order,
\* the PDF parts with valid base64 inline content (with the decoded content)
\* and the PDF parts whose download gave content; a download was made for
\* exactly the PDF parts that have a link and no valid inline content; and
\* no recorded content is empty.
C30_RecordedOnlyWithContent ==
    e_pc = "parsed" =>
        LET pdfs == PdfPartsOf(email_parts)
            Inline(i) == pdfs[i].content # <<>> /\ is_valid_base64(pdfs[i].content)
            Gets(i) == {j \in 1..Len(fetched) : fetched[j].part = i}
            Recorded(i) == Inline(i) \/ \E j \in Gets(i) : fetched[j].outcome = "ok"
            idx == SelectSeq([i \in 1..Len(pdfs) |-> i], Recorded)
        IN /\ \A a \in 1..Len(attachments) : attachments[a].content # <<>>
           /\ \A i \in 1..Len(pdfs) :
                 Cardinality(Gets(i)) =
                    IF ~Inline(i) /\ pdfs[i].attachmentLink THEN 1 ELSE 0
           /\ attachments =
                 [k \in 1..Len(idx) |->
                    [filename |-> pdfs[idx[k]].filename,
                     content |-> IF Inline(idx[k])
                                 THEN b64decode(pdfs[idx[k]].content).bytes
                                 ELSE download_attachment("ok").bytes]]

\* A PDF with valid inline content and a link was recorded without a
\* download, and a PDF whose inline content is not valid base64 was
\* downloaded, in vain, and not recorded.
C30_Witness ==
    /\ e_pc = "parsed"
    /\ email_parts = <<PdfPart(ValidInline, TRUE, "form.pdf"),
                       PdfPart(<<"QUAD", "JUNK">>, TRUE, "linked.pdf")>>
    /\ fetched = <<[part |-> 2, outcome |-> "error"]>>
    /\ Len(attachments) = 1 /\ attachments[1].filename = "form.pdf"

====
